---- MODULE Spec2Model ----
(***************************************************************************)
(* Model of the /autograde-erd endpoint of src/server.js: the request      *)
(* handler, the deterministic grading function calculateGrades and its     *)
(* helpers filterElementsByContext, areStringsSemanticallySimilar and      *)
(* getLevenshteinDistance.                                                 *)
(*                                                                         *)
(* JavaScript strings are sequences of one-character strings, so that the  *)
(* string operations of the code (includes, split, replace, sort, ...) are *)
(* computed as the code computes them.  The JavaScript value undefined is  *)
(* the value Undef.  Numbers that the code divides are exact rationals     *)
(* <<numerator, denominator>>.                                             *)
(***************************************************************************)
EXTENDS Integers, Sequences, FiniteSets, TLC

VARIABLES
    body,        \* req.body: the fields present and their values
    pc,          \* where the handler is: "start", "awaiting" (the fetch), "done"
    grading,     \* what calculateGrades returned, once it has
    upstream,    \* how the outbound feedback call settled, once it has
    response,    \* the response sent: status and JSON body
    cause,       \* auxiliary: why the request failed ("none" while it has not)
    gradeCalls,  \* auxiliary: the number of calls of calculateGrades
    fetchCalls,  \* auxiliary: the number of outbound feedback calls
    sent,        \* auxiliary: the number of responses sent
    peer,        \* a second request in flight on the same server: its pc, body, grading
    probe        \* a direct call of areStringsSemanticallySimilar: arguments and result

vars == << body, pc, grading, upstream, response, cause, gradeCalls, fetchCalls, sent,
           peer, probe >>

(***************************************************************************)
(* Characters and strings                                                  *)
(***************************************************************************)

\* The characters the model's strings are written in, in UTF-16 order.
Alphabet ==
    << " ", "&", "'", "(", ")", "-", ".",
       "0", "1", "2", "3", "4", "5", "6", "7", "8", "9", ":",
       "A", "B", "C", "D", "E", "F", "G", "H", "I", "J", "K", "L", "M",
       "N", "O", "P", "Q", "R", "S", "T", "U", "V", "W", "X", "Y", "Z", "_",
       "a", "b", "c", "d", "e", "f", "g", "h", "i", "j", "k", "l", "m",
       "n", "o", "p", "q", "r", "s", "t", "u", "v", "w", "x", "y", "z" >>

\* The position of character c in UTF-16 order (what Array.prototype.sort compares).
Code(c) == CHOOSE i \in 1..Len(Alphabet) : Alphabet[i] = c

Digits == {"0", "1", "2", "3", "4", "5", "6", "7", "8", "9"}

LowerLetters ==
    {"a", "b", "c", "d", "e", "f", "g", "h", "i", "j", "k", "l", "m",
     "n", "o", "p", "q", "r", "s", "t", "u", "v", "w", "x", "y", "z"}

UpperLetters ==
    {"A", "B", "C", "D", "E", "F", "G", "H", "I", "J", "K", "L", "M",
     "N", "O", "P", "Q", "R", "S", "T", "U", "V", "W", "X", "Y", "Z"}

\* The JavaScript value undefined (no string of characters equals it).
Undef == << "<undefined>" >>

\* A field that a JSON object does not have (undefined).
Absent == [absent |-> TRUE]

\* A string whose text the model does not look into.
Text(t) == [text |-> t]

\* !v for a string-or-undefined value: undefined and '' are falsy.
Falsy(v) == v = Undef \/ v = << >>

\* String(undefined), what String.prototype.includes turns an undefined argument into.
UndefinedText == << "u", "n", "d", "e", "f", "i", "n", "e", "d" >>

ToStr(v) == IF v = Undef THEN UndefinedText ELSE v

\* String.prototype.toLowerCase, one character.
LowerChar(c) == IF c \in UpperLetters THEN Alphabet[Code(c) + 27] ELSE c

toLowerCase(s) == [i \in 1..Len(s) |-> LowerChar(s[i])]

IsAlnumLower(c) == c \in LowerLetters \/ c \in Digits

\* s.replace(/[^a-z0-9]/g, '')
StripNonAlnum(s) == SelectSeq(s, IsAlnumLower)

\* String.prototype.startsWith at position i (1-based): p occurs in s at i.
OccursAt(s, p, i) ==
    /\ i + Len(p) - 1 <= Len(s)
    /\ \A k \in 1..Len(p) : s[i + k - 1] = p[k]

\* String.prototype.includes
includes(s, p) == \E i \in 1..(Len(s) + 1) : OccursAt(s, p, i)

\* String.prototype.endsWith
endsWith(s, p) == Len(p) <= Len(s) /\ OccursAt(s, p, Len(s) - Len(p) + 1)

\* Array.prototype.join(''): the concatenation of a sequence of strings.
RECURSIVE Join(_)
Join(ws) == IF ws = << >> THEN << >> ELSE Head(ws) \o Join(Tail(ws))

IsSeparator(c) == c = " " \/ c = "_"

\* s.split(/[\s_]+/): the pieces of s between maximal runs of whitespace and
\* underscores (a leading or trailing run leaves an empty piece, as in JavaScript).
\* acc holds the pieces found so far, cur the piece being read.
RECURSIVE SplitWords(_, _, _, _)
SplitWords(s, i, acc, cur) ==
    IF i > Len(s) THEN Append(acc, cur)
    ELSE IF IsSeparator(s[i])
         THEN IF i > 1 /\ IsSeparator(s[i - 1])
              THEN SplitWords(s, i + 1, acc, cur)
              ELSE SplitWords(s, i + 1, Append(acc, cur), << >>)
         ELSE SplitWords(s, i + 1, acc, Append(cur, s[i]))

\* a < b in the order Array.prototype.sort uses by default (UTF-16 code units).
RECURSIVE StrLess(_, _)
StrLess(a, b) ==
    IF b = << >> THEN FALSE
    ELSE IF a = << >> THEN TRUE
    ELSE IF Head(a) = Head(b) THEN StrLess(Tail(a), Tail(b))
    ELSE Code(Head(a)) < Code(Head(b))

\* w inserted into the sorted sequence ws.
RECURSIVE InsertSorted(_, _)
InsertSorted(w, ws) ==
    IF ws = << >> THEN << w >>
    ELSE IF StrLess(Head(ws), w) THEN << Head(ws) >> \o InsertSorted(w, Tail(ws))
    ELSE << w >> \o ws

\* Array.prototype.sort() on strings.
RECURSIVE SortWords(_)
SortWords(ws) ==
    IF ws = << >> THEN << >> ELSE InsertSorted(Head(ws), SortWords(Tail(ws)))

\* str.toLowerCase().split(/[\s_]+/).sort().join('')
WordBag(str) == Join(SortWords(SplitWords(toLowerCase(str), 1, << >>, << >>)))

Min2(x, y) == IF x <= y THEN x ELSE y

Max2(x, y) == IF x >= y THEN x ELSE y

\* One row of the matrix of getLevenshteinDistance: row i (for b[i]) from the row
\* above it; cur holds matrix[i][0..j-1], and position k of a row holds column k-1.
RECURSIVE LevRow(_, _, _, _, _)
LevRow(a, b, i, prev, cur) ==
    LET j == Len(cur) IN
    IF j > Len(a) THEN cur
    ELSE LevRow(a, b, i, prev,
                Append(cur,
                       IF b[i] = a[j]
                       THEN prev[j]
                       ELSE Min2(prev[j] + 1, Min2(cur[j] + 1, prev[j + 1] + 1))))

RECURSIVE LevRows(_, _, _, _)
LevRows(a, b, i, prev) ==
    IF i > Len(b) THEN prev
    ELSE LevRows(a, b, i + 1, LevRow(a, b, i, prev, << i >>))

\* getLevenshteinDistance(a, b)
getLevenshteinDistance(a, b) ==
    LevRows(a, b, 1, [j \in 1..(Len(a) + 1) |-> j - 1])[Len(a) + 1]

\* The shortest cleaned length at which the plural/tense rule applies (MIN_LEN).
MIN_LEN == 3

\* Step 6 of areStringsSemanticallySimilar: the edit distance allowed for length len.
allowedErrors(len) == IF len > 6 THEN 2 ELSE IF len > 3 THEN 1 ELSE 0

\* Step 4 of areStringsSemanticallySimilar: plural and past-tense endings.
StemMatch(s1, s2) ==
    /\ Len(s1) >= MIN_LEN
    /\ Len(s2) >= MIN_LEN
    /\ \/ s1 = s2 \o << "s" >>
       \/ s2 = s1 \o << "s" >>
       \/ s1 = s2 \o << "e", "s" >>
       \/ s2 = s1 \o << "e", "s" >>
       \/ endsWith(s1, << "e", "d" >>) /\ SubSeq(s1, 1, Len(s1) - 2) = s2
       \/ endsWith(s2, << "e", "d" >>) /\ SubSeq(s2, 1, Len(s2) - 2) = s1

\* Step 6 of areStringsSemanticallySimilar on the cleaned strings.
TypoMatch(s1, s2, len) ==
    /\ allowedErrors(len) > 0
    /\ getLevenshteinDistance(s1, s2) <= allowedErrors(len)

\* SimilarCleaned without the second substring test (s2.includes(s1)).
SimilarCleanedOneWay(str1, str2, s1, s2) ==
    \/ s1 = s2
    \/ includes(s1, s2) /\ Len(s2) > 3
    \/ StemMatch(s1, s2)
    \/ WordBag(str1) = WordBag(str2)
    \/ TypoMatch(s1, s2, Max2(Len(s1), Len(s2)))

\* Steps 2 to 6 of areStringsSemanticallySimilar: s1 and s2 are str1 and str2
\* cleaned up.
SimilarCleaned(str1, str2, s1, s2) ==
    \/ s1 = s2
    \/ includes(s1, s2) /\ Len(s2) > 3
    \/ includes(s2, s1) /\ Len(s1) > 3
    \/ StemMatch(s1, s2)
    \/ WordBag(str1) = WordBag(str2)
    \/ TypoMatch(s1, s2, Max2(Len(s1), Len(s2)))

\* str.trim().toLowerCase().replace(/[^a-z0-9]/g, '')
Clean(str) == StripNonAlnum(toLowerCase(str))

\* areStringsSemanticallySimilar(str1, str2)
areStringsSemanticallySimilar(str1, str2) ==
    IF Falsy(str1) \/ Falsy(str2) THEN FALSE
    ELSE SimilarCleaned(str1, str2, Clean(str1), Clean(str2))

(***************************************************************************)
(* Numbers.  A JavaScript number is an exact rational <<n, d>> in lowest   *)
(* terms with d > 0; NaN is the value NaN.  The inputs of the model are    *)
(* non-negative, and no operation of calculateGrades subtracts.            *)
(***************************************************************************)

NaN == << 0, 0 >>

IsNaN(x) == x[2] = 0

RECURSIVE GCD(_, _)
GCD(m, n) == IF n = 0 THEN m ELSE GCD(n, m % n)

Rat(n, d) == LET g == GCD(n, d) IN IF g = 0 THEN << 0, 1 >> ELSE << n \div g, d \div g >>

Num(n) == << n, 1 >>

\* x * y
Times(x, y) == IF IsNaN(x) \/ IsNaN(y) THEN NaN ELSE Rat(x[1] * y[1], x[2] * y[2])

\* x + y
Plus(x, y) ==
    IF IsNaN(x) \/ IsNaN(y) THEN NaN ELSE Rat(x[1] * y[2] + y[1] * x[2], x[2] * y[2])

\* x / y for y # 0 (the code divides by expectedCount only when it is > 0)
Over(x, y) == IF IsNaN(x) \/ IsNaN(y) THEN NaN ELSE Rat(x[1] * y[2], x[2] * y[1])

\* x <= y, false when either is NaN as in JavaScript
LessEq(x, y) == ~IsNaN(x) /\ ~IsNaN(y) /\ x[1] * y[2] <= y[1] * x[2]

\* Math.min(x, y): NaN when either is NaN
MathMin(x, y) == IF IsNaN(x) \/ IsNaN(y) THEN NaN ELSE IF LessEq(x, y) THEN x ELSE y

\* parseFloat(x.toFixed(2)): x rounded to hundredths, halves up (x >= 0)
ToFixed2(x) ==
    IF IsNaN(x) THEN NaN ELSE Rat((200 * x[1] + x[2]) \div (2 * x[2]), 100)

(***************************************************************************)
(* The multiplier formula: description.match(/([\d.]+)\s*x\s*(\d+)/)       *)
(***************************************************************************)

\* The first position at or after i of s whose character is not in chars.
RECURSIVE SkipWhile(_, _, _)
SkipWhile(s, i, chars) ==
    IF i <= Len(s) /\ s[i] \in chars THEN SkipWhile(s, i + 1, chars) ELSE i

\* \d or a dot
DigitOrDot == Digits \cup {"."}

\* \s, among the characters of Alphabet
Space == {" "}

\* The match of the pattern that starts at position i of s, or Undef. [\d.]+ is
\* greedy; giving a character back never helps, since the character after a
\* shorter run is a digit or dot and the pattern wants whitespace or x there.
MatchCount(s, i, e1, d, e2) ==
    IF e2 > d THEN << SubSeq(s, i, e1 - 1), SubSeq(s, d, e2 - 1) >> ELSE Undef

MatchX(s, i, e1, x) ==
    IF x <= Len(s) /\ s[x] = "x"
    THEN MatchCount(s, i, e1, SkipWhile(s, x + 1, Space),
                    SkipWhile(s, SkipWhile(s, x + 1, Space), Digits))
    ELSE Undef

MatchFactor(s, i, e1) ==
    IF e1 > i THEN MatchX(s, i, e1, SkipWhile(s, e1, Space)) ELSE Undef

MatchFormulaAt(s, i) == MatchFactor(s, i, SkipWhile(s, i, DigitOrDot))

\* description.match(...): the groups of the leftmost match, or Undef (null).
RECURSIVE MatchFormulaFrom(_, _)
MatchOrNext(s, i, found) == IF found # Undef THEN found ELSE MatchFormulaFrom(s, i + 1)

MatchFormulaFrom(s, i) ==
    IF i > Len(s) THEN Undef ELSE MatchOrNext(s, i, MatchFormulaAt(s, i))

multiplierMatch(description) == MatchFormulaFrom(description, 1)

DigitValue(c) == Code(c) - Code("0")

\* The value of a string of digits ('' counts 0).
RECURSIVE DigitsValue(_)
DigitsValue(ds) ==
    IF ds = << >> THEN 0
    ELSE 10 * DigitsValue(SubSeq(ds, 1, Len(ds) - 1)) + DigitValue(ds[Len(ds)])

RECURSIVE Pow10(_)
Pow10(k) == IF k = 0 THEN 1 ELSE 10 * Pow10(k - 1)

\* parseInt of a string of digits.
parseInt(ds) == DigitsValue(ds)

\* parseFloat of a string of digits and dots: the longest prefix that is a
\* decimal literal (digits, then at most one dot and digits); NaN if none.
DecimalValue(int, frac) ==
    IF int = << >> /\ frac = << >> THEN NaN
    ELSE Rat(DigitsValue(int) * Pow10(Len(frac)) + DigitsValue(frac), Pow10(Len(frac)))

DecimalPrefix(t, e1) ==
    IF e1 <= Len(t) /\ t[e1] = "."
    THEN DecimalValue(SubSeq(t, 1, e1 - 1),
                      SubSeq(t, e1 + 1, SkipWhile(t, e1 + 1, Digits) - 1))
    ELSE DecimalValue(SubSeq(t, 1, e1 - 1), << >>)

parseFloat(t) == DecimalPrefix(t, SkipWhile(t, 1, Digits))

(***************************************************************************)
(* Elements, rubrics and the helpers of calculateGrades                    *)
(***************************************************************************)

\* A detected diagram element. Fields an element does not have are Undef.
Element(id, name, type, subType, from, to, cardinalityFrom, cardinalityTo, belongsTo) ==
    [id |-> id, name |-> name, type |-> type, subType |-> subType,
     from |-> from, to |-> to,
     cardinalityFrom |-> cardinalityFrom, cardinalityTo |-> cardinalityTo,
     belongsTo |-> belongsTo]

\* elements.filter(e => e.type === type)
OfType(elements, type) == SelectSeq(elements, LAMBDA e : e.type = type)

\* elements.filter(e => e.subType === subType)
OfSubType(elements, subType) == SelectSeq(elements, LAMBDA e : e.subType = subType)

\* The literals the code looks for in a lower-cased category name.
kw_entit == << "e", "n", "t", "i", "t" >>
kw_attribute == << "a", "t", "t", "r", "i", "b", "u", "t", "e" >>
kw_key == << "k", "e", "y" >>
kw_relationship == << "r", "e", "l", "a", "t", "i", "o", "n", "s", "h", "i", "p" >>
kw_cardinality == << "c", "a", "r", "d", "i", "n", "a", "l", "i", "t", "y" >>
kw_primary == << "p", "r", "i", "m", "a", "r", "y" >>
kw_identifier == << "i", "d", "e", "n", "t", "i", "f", "i", "e", "r" >>
kw_derived == << "d", "e", "r", "i", "v", "e", "d" >>
kw_composite == << "c", "o", "m", "p", "o", "s", "i", "t", "e" >>
kw_multi == << "m", "u", "l", "t", "i" >>
kw_weak == << "w", "e", "a", "k" >>
kw_associative == << "a", "s", "s", "o", "c", "i", "a", "t", "i", "v", "e" >>
kw_identifying == << "i", "d", "e", "n", "t", "i", "f", "y", "i", "n", "g" >>

\* filterElementsByContext(elements, type, context)
filterElementsByContext(elements, type, context) ==
    LET ctx == toLowerCase(context)
        filtered == OfType(elements, type)
    IN CASE type = "attribute" ->
              IF includes(ctx, kw_multi) THEN OfSubType(filtered, "multivalued")
              ELSE IF includes(ctx, kw_composite) THEN OfSubType(filtered, "composite")
              ELSE IF includes(ctx, kw_derived) THEN OfSubType(filtered, "derived")
              ELSE IF \/ includes(ctx, kw_primary)
                      \/ includes(ctx, kw_identifier)
                      \/ includes(ctx, kw_key)
                   THEN OfSubType(filtered, "primary_key")
              ELSE filtered
         [] type = "entity" ->
              IF includes(ctx, kw_weak) THEN OfSubType(filtered, "weak")
              ELSE IF includes(ctx, kw_associative) THEN OfSubType(filtered, "associative")
              ELSE filtered
         [] type = "relationship" ->
              IF includes(ctx, kw_weak) \/ includes(ctx, kw_identifying)
              THEN OfSubType(filtered, "weak")
              ELSE IF includes(ctx, kw_associative) THEN OfSubType(filtered, "associative")
              ELSE filtered
         [] OTHER -> filtered

\* Array.prototype.find, given the set hits of the positions whose element
\* satisfies the callback: the first of them, or 0 when find returns undefined.
Find(hits) == IF hits = {} THEN 0 ELSE CHOOSE i \in hits : \A k \in hits : i <= k

\* entityMap[name] || name. entityMap is a function from the student entity
\* names recorded so far to correct-answer names; a property key is a string,
\* so an undefined name reads the key 'undefined'.
Mapped(entityMap, name) ==
    LET key == ToStr(name)
    IN IF key \in DOMAIN entityMap /\ ~Falsy(entityMap[key]) THEN entityMap[key] ELSE name

\* entityMap[key] = value
SetKey(entityMap, key, value) == (ToStr(key) :> value) @@ entityMap

\* One string pushed on correctItems, missing or incorrect: the template literal
\* tpl with the names (strings) and subTypes it interpolates, in order.
Item(tpl, names, subs) == [tpl |-> tpl, names |-> names, subs |-> subs]

\* The state a criterion's matching loop carries: the criterion's four locals,
\* the run's matchedStudentIds and entityMap, and extraIds, an auxiliary set
\* (not in the code) of the ids of the student elements reported as extras.
Acc(matched, entityMap) ==
    [correctCount |-> 0, correctItems |-> << >>, missing |-> << >>, incorrect |-> << >>,
     matched |-> matched, entityMap |-> entityMap, extraIds |-> {}]

(***************************************************************************)
(* A. Entity matching                                                      *)
(***************************************************************************)

\* The if (match) branch of the entity loop: the strict type check.
EntityFound(acc, ce, match) ==
    IF match.subType # ce.subType
    THEN [acc EXCEPT
            !.incorrect = Append(@,
                Item("${ce.name} (Incorrect Type: You used '${match.subType}', expected '${ce.subType}')",
                     << ce.name >>, << match.subType, ce.subType >>)),
            !.matched = @ \cup {match.id}]
    ELSE [acc EXCEPT
            !.correctCount = @ + 1,
            !.correctItems = Append(@,
                IF match.name # ce.name
                THEN Item("${ce.name} (Note: You wrote '${match.name}')",
                          << ce.name, match.name >>, << >>)
                ELSE Item("${ce.name}", << ce.name >>, << >>)),
            !.entityMap = SetKey(@, match.name, ce.name),
            !.matched = @ \cup {match.id}]

\* EntityDecide without the else branch: an unmatched entity is not recorded.
EntityDecideNoMissing(acc, ce, studentEntities, m) ==
    IF m # 0 THEN EntityFound(acc, ce, studentEntities[m]) ELSE acc

\* if (match) { ... } else { missing.push(ce.name) }, m the position find returned.
EntityDecide(acc, ce, studentEntities, m) ==
    IF m # 0 THEN EntityFound(acc, ce, studentEntities[m])
    ELSE [acc EXCEPT !.missing = Append(@, Item("${ce.name}", << ce.name >>, << >>))]

\* The body of targetCorrectElements.forEach(ce => ...) of the entity branch.
EntityStep(acc, ce, studentEntities) ==
    EntityDecide(acc, ce, studentEntities,
                 Find({k \in 1..Len(studentEntities) :
                         areStringsSemanticallySimilar(studentEntities[k].name, ce.name)}))

RECURSIVE EntityLoop(_, _, _, _)
EntityLoop(acc, targets, i, studentEntities) ==
    IF i > Len(targets) THEN acc
    ELSE EntityLoop(EntityStep(acc, targets[i], studentEntities), targets, i + 1,
                    studentEntities)

(***************************************************************************)
(* B. Attribute and key matching                                           *)
(***************************************************************************)

\* isSpecificSection: the category names a specific attribute notation.
isSpecificSection(categoryLower) ==
    \/ includes(categoryLower, kw_primary)
    \/ includes(categoryLower, kw_key)
    \/ includes(categoryLower, kw_derived)
    \/ includes(categoryLower, kw_composite)
    \/ includes(categoryLower, kw_multi)

\* The message of a strict-mode notation error for correct attribute ca.
NotationError(ca, match) ==
    IF ca.subType = "derived"
    THEN Item("${ca.name} is Derived but missing dashed oval.", << ca.name >>, << >>)
    ELSE IF ca.subType = "multivalued"
    THEN Item("${ca.name} is Multivalued but missing double oval.", << ca.name >>, << >>)
    ELSE IF ca.subType = "primary_key"
    THEN Item("${ca.name} is a Primary Key but was not underlined.", << ca.name >>, << >>)
    ELSE Item("${ca.name} (Incorrect Notation: You used '${match.subType}', expected '${ca.subType}')",
              << ca.name >>, << match.subType, ca.subType >>)

\* The if (match) branch that is lenient in every section.
AttributeFoundLenient(acc, ca, match, specific) ==
    [acc EXCEPT
       !.correctCount = @ + 1,
       !.correctItems = Append(@,
           IF match.name # ca.name
           THEN Item("${ca.name} (Note: You wrote '${match.name}')",
                     << ca.name, match.name >>, << >>)
           ELSE Item("${ca.name}", << ca.name >>, << >>)),
       !.matched = @ \cup {match.id}]

\* The if (match) branch of the attribute loop: strict or lenient on the shape.
AttributeFound(acc, ca, match, specific) ==
    IF specific /\ match.subType # ca.subType
    THEN [acc EXCEPT
            !.incorrect = Append(@, NotationError(ca, match)),
            !.matched = @ \cup {match.id}]
    ELSE [acc EXCEPT
            !.correctCount = @ + 1,
            !.correctItems = Append(@,
                IF match.name # ca.name
                THEN Item("${ca.name} (Note: You wrote '${match.name}')",
                          << ca.name, match.name >>, << >>)
                ELSE Item("${ca.name}", << ca.name >>, << >>)),
            !.matched = @ \cup {match.id}]

AttributeDecide(acc, ca, studentAttrs, specific, m) ==
    IF m # 0 THEN AttributeFound(acc, ca, studentAttrs[m], specific)
    ELSE [acc EXCEPT
            !.missing = Append(@, Item("${ca.name} in ${ca.belongsTo}",
                                       << ca.name, ca.belongsTo >>, << >>))]

\* The predicate of studentAttrs.find without parentMatch.
AttributeMatchesByName(entityMap, sa, ca) ==
    areStringsSemanticallySimilar(sa.name, ca.name)

\* The predicate of studentAttrs.find: nameMatch && parentMatch.
AttributeMatches(entityMap, sa, ca) ==
    /\ areStringsSemanticallySimilar(sa.name, ca.name)
    /\ areStringsSemanticallySimilar(Mapped(entityMap, sa.belongsTo), ca.belongsTo)

\* The body of targetCorrectElements.forEach(ca => ...) of the attribute branch.
AttributeStep(acc, ca, studentAttrs, specific) ==
    AttributeDecide(acc, ca, studentAttrs, specific,
                    Find({k \in 1..Len(studentAttrs) :
                            AttributeMatches(acc.entityMap, studentAttrs[k], ca)}))

RECURSIVE AttributeLoop(_, _, _, _, _)
AttributeLoop(acc, targets, i, studentAttrs, specific) ==
    IF i > Len(targets) THEN acc
    ELSE AttributeLoop(AttributeStep(acc, targets[i], studentAttrs, specific),
                       targets, i + 1, studentAttrs, specific)

(***************************************************************************)
(* C. Relationship matching                                                *)
(***************************************************************************)

\* forward || reverse, for the mapped endpoints of a student relationship.
ForwardOrReverse(sFrom, sTo, cr) ==
    \/ /\ areStringsSemanticallySimilar(sFrom, cr.from)
       /\ areStringsSemanticallySimilar(sTo, cr.to)
    \/ /\ areStringsSemanticallySimilar(sFrom, cr.to)
       /\ areStringsSemanticallySimilar(sTo, cr.from)

\* forward || reverse for student relationship s and correct relationship cr.
EndpointsMatch(entityMap, s, cr) ==
    ForwardOrReverse(Mapped(entityMap, s.from), Mapped(entityMap, s.to), cr)

\* (forward || reverse) || (nameMatch && (forward || reverse))
RelationshipMatches(sr, cr, endpoints) ==
    endpoints \/ (areStringsSemanticallySimilar(sr.name, cr.name) /\ endpoints)

\* The if (match) branch with a type mismatch that leaves the student
\* relationship unconsumed.
RelationshipFoundUnconsumed(acc, cr, match) ==
    IF match.subType # cr.subType
    THEN [acc EXCEPT
            !.incorrect = Append(@,
                Item("${cr.name} (Incorrect Type: You used '${match.subType}' diamond, expected '${cr.subType}')",
                     << cr.name >>, << match.subType, cr.subType >>))]
    ELSE [acc EXCEPT
            !.correctCount = @ + 1,
            !.correctItems = Append(@,
                IF match.name # cr.name
                THEN Item("${cr.name} (Note: '${match.name}')",
                          << cr.name, match.name >>, << >>)
                ELSE Item("${cr.name}", << cr.name >>, << >>)),
            !.matched = @ \cup {match.id}]

\* The if (match) branch of the relationship loop.
RelationshipFound(acc, cr, match) ==
    IF match.subType # cr.subType
    THEN [acc EXCEPT
            !.incorrect = Append(@,
                Item("${cr.name} (Incorrect Type: You used '${match.subType}' diamond, expected '${cr.subType}')",
                     << cr.name >>, << match.subType, cr.subType >>)),
            !.matched = @ \cup {match.id}]
    ELSE [acc EXCEPT
            !.correctCount = @ + 1,
            !.correctItems = Append(@,
                IF match.name # cr.name
                THEN Item("${cr.name} (Note: '${match.name}')",
                          << cr.name, match.name >>, << >>)
                ELSE Item("${cr.name}", << cr.name >>, << >>)),
            !.matched = @ \cup {match.id}]

RelationshipDecide(acc, cr, studentRels, m) ==
    IF m # 0 THEN RelationshipFound(acc, cr, studentRels[m])
    ELSE [acc EXCEPT
            !.missing = Append(@, Item("${cr.name} between ${cr.from} and ${cr.to}",
                                       << cr.name, cr.from, cr.to >>, << >>))]

\* The body of targetCorrectElements.forEach(cr => ...) of the relationship branch.
RelationshipStep(acc, cr, studentRels) ==
    RelationshipDecide(acc, cr, studentRels,
        Find({k \in 1..Len(studentRels) :
                RelationshipMatches(studentRels[k], cr,
                                    EndpointsMatch(acc.entityMap, studentRels[k], cr))}))

RECURSIVE RelationshipLoop(_, _, _, _)
RelationshipLoop(acc, targets, i, studentRels) ==
    IF i > Len(targets) THEN acc
    ELSE RelationshipLoop(RelationshipStep(acc, targets[i], studentRels), targets, i + 1,
                          studentRels)

\* studentRels.forEach(sr => { if (!matchedStudentIds.has(sr.id)) ... }), from i on.
RECURSIVE MarkExtras(_, _, _)
MarkExtras(acc, studentRels, i) ==
    IF i > Len(studentRels) THEN acc
    ELSE MarkExtras(
           IF studentRels[i].id \notin acc.matched
           THEN [acc EXCEPT
                   !.incorrect = Append(@, Item("Extra relationship: ${sr.name}",
                                                << studentRels[i].name >>, << >>)),
                   !.extraIds = @ \cup {studentRels[i].id}]
           ELSE acc,
           studentRels, i + 1)

(***************************************************************************)
(* D. Cardinality                                                          *)
(***************************************************************************)

DotDot == << ".", "." >>

\* s.split('..'): the pieces of s between successive occurrences of '..'.
RECURSIVE SplitDotDot(_, _, _, _)
SplitDotDot(s, i, acc, cur) ==
    IF i > Len(s) THEN Append(acc, cur)
    ELSE IF OccursAt(s, DotDot, i) THEN SplitDotDot(s, i + 2, Append(acc, cur), << >>)
    ELSE SplitDotDot(s, i + 1, acc, Append(cur, s[i]))

\* const [min, max] = (tag || '..').split('..')
MinMax(tag) ==
    LET parts == SplitDotDot(IF Falsy(tag) THEN DotDot ELSE tag, 1, << >>, << >>)
    IN [min |-> parts[1], max |-> IF Len(parts) >= 2 THEN parts[2] ELSE Undef]

\* useMinMax with a threshold of 4.5 checks per relationship.
useMinMaxLate(expectedCount, relationshipCount) ==
    IF relationshipCount = 0 THEN expectedCount > 0
    ELSE 2 * expectedCount >= 9 * relationshipCount

\* useMinMax = (expectedCount / relationshipCount >= 3.5); a division by zero
\* gives Infinity (or NaN for 0 / 0, which compares false).
useMinMax(expectedCount, relationshipCount) ==
    IF relationshipCount = 0 THEN expectedCount > 0
    ELSE 2 * expectedCount >= 7 * relationshipCount

\* (studentVal || '').includes(correctVal) || (correctVal || '').includes(studentVal)
TagMatches(studentVal, correctVal) ==
    \/ includes(IF Falsy(studentVal) THEN << >> ELSE studentVal, ToStr(correctVal))
    \/ includes(IF Falsy(correctVal) THEN << >> ELSE correctVal, ToStr(studentVal))

\* One of the four checks of COMPONENT mode: the student's part against the
\* correct part, counted under okTpl or reported under badTpl towards `side`.
ComponentCheck(acc, cr, side, sPart, cPart, okTpl, badTpl) ==
    IF areStringsSemanticallySimilar(sPart, cPart)
    THEN [acc EXCEPT !.correctCount = @ + 1,
                     !.correctItems = Append(@, Item(okTpl, << cr.name >>, << >>))]
    ELSE [acc EXCEPT !.incorrect = Append(@,
              Item(badTpl, << cr.name, cr.from, cr.to, side, cPart, sPart >>, << >>))]

\* One of the two checks of ENDPOINT mode.
EndpointCheck(acc, cr, studentVal, correctVal, okTpl, badTpl) ==
    IF TagMatches(studentVal, correctVal)
    THEN [acc EXCEPT !.correctCount = @ + 1,
                     !.correctItems = Append(@, Item(okTpl, << cr.name >>, << >>))]
    ELSE [acc EXCEPT !.incorrect = Append(@,
              Item(badTpl, << cr.name, correctVal, studentVal >>, << >>))]

\* isFlipped for the student relationship sr found for cr.
isFlipped(entityMap, sr, cr) ==
    areStringsSemanticallySimilar(Mapped(entityMap, sr.from), cr.to)

\* The four checks of COMPONENT mode with the start-max check tied to the
\* min parts.
ComponentChecksTied(acc, cr, sFrom, sTo, cFrom, cTo) ==
    ComponentCheck(
      ComponentCheck(
        ComponentCheck(
          ComponentCheck(acc, cr, cr.from, sFrom.min, cFrom.min,
            "${cr.name} start-min",
            "${cr.name} (between ${cr.from} & ${cr.to}) towards ${cr.from} min-cardinality (Exp:${cFromMin} Found:${sFromMin})"),
          cr, cr.from, sFrom.min, cFrom.min,
          "${cr.name} start-max",
          "${cr.name} (between ${cr.from} & ${cr.to}) towards ${cr.from} max-cardinality (Exp:${cFromMax} Found:${sFromMax})"),
        cr, cr.to, sTo.min, cTo.min,
        "${cr.name} end-min",
        "${cr.name} (between ${cr.from} & ${cr.to}) towards ${cr.to} min-cardinality (Exp:${cToMin} Found:${sToMin})"),
      cr, cr.to, sTo.max, cTo.max,
      "${cr.name} end-max",
      "${cr.name} (between ${cr.from} & ${cr.to}) towards ${cr.to} max-cardinality (Exp:${cToMax} Found:${sToMax})")

\* The four checks of COMPONENT mode, on the split tags.
ComponentChecks(acc, cr, sFrom, sTo, cFrom, cTo) ==
    ComponentCheck(
      ComponentCheck(
        ComponentCheck(
          ComponentCheck(acc, cr, cr.from, sFrom.min, cFrom.min,
            "${cr.name} start-min",
            "${cr.name} (between ${cr.from} & ${cr.to}) towards ${cr.from} min-cardinality (Exp:${cFromMin} Found:${sFromMin})"),
          cr, cr.from, sFrom.max, cFrom.max,
          "${cr.name} start-max",
          "${cr.name} (between ${cr.from} & ${cr.to}) towards ${cr.from} max-cardinality (Exp:${cFromMax} Found:${sFromMax})"),
        cr, cr.to, sTo.min, cTo.min,
        "${cr.name} end-min",
        "${cr.name} (between ${cr.from} & ${cr.to}) towards ${cr.to} min-cardinality (Exp:${cToMin} Found:${sToMin})"),
      cr, cr.to, sTo.max, cTo.max,
      "${cr.name} end-max",
      "${cr.name} (between ${cr.from} & ${cr.to}) towards ${cr.to} max-cardinality (Exp:${cToMax} Found:${sToMax})")

\* The two checks of ENDPOINT mode, on the whole tags.
EndpointChecks(acc, cr, studentFromVal, studentToVal) ==
    EndpointCheck(
      EndpointCheck(acc, cr, studentFromVal, cr.cardinalityFrom,
        "${cr.name} start",
        "${cr.name} start (Exp:${cr.cardinalityFrom} Found:${studentFromVal})"),
      cr, studentToVal, cr.cardinalityTo,
      "${cr.name} end",
      "${cr.name} end (Exp:${cr.cardinalityTo} Found:${studentToVal})")

\* if (useMinMax) { ... } else { ... } on the aligned student tags.
CardinalityCompare(acc, cr, studentFromVal, studentToVal, minMax) ==
    IF minMax
    THEN ComponentChecks(acc, cr, MinMax(studentFromVal), MinMax(studentToVal),
                         MinMax(cr.cardinalityFrom), MinMax(cr.cardinalityTo))
    ELSE EndpointChecks(acc, cr, studentFromVal, studentToVal)

\* studentFromVal and studentToVal: the student's tags, swapped when flipped.
CardinalityAlign(acc, cr, sr, minMax, flipped) ==
    CardinalityCompare(acc, cr,
                       IF flipped THEN sr.cardinalityTo ELSE sr.cardinalityFrom,
                       IF flipped THEN sr.cardinalityFrom ELSE sr.cardinalityTo,
                       minMax)

\* CardinalityDecide without the else branch.
CardinalityDecideSilent(acc, cr, studentRels, minMax, m) ==
    IF m # 0
    THEN CardinalityAlign(acc, cr, studentRels[m], minMax,
                          isFlipped(acc.entityMap, studentRels[m], cr))
    ELSE acc

\* if (sr) { ... } else { missing.push(...) }, m the position find returned.
CardinalityDecide(acc, cr, studentRels, minMax, m) ==
    IF m # 0
    THEN CardinalityAlign(acc, cr, studentRels[m], minMax,
                          isFlipped(acc.entityMap, studentRels[m], cr))
    ELSE [acc EXCEPT
            !.missing = Append(@, Item("Cardinality for ${cr.name}", << cr.name >>, << >>))]

\* The body of correctRels.forEach(cr => ...) of the cardinality branch.
CardinalityStep(acc, cr, studentRels, minMax) ==
    CardinalityDecide(acc, cr, studentRels, minMax,
                      Find({k \in 1..Len(studentRels) :
                              EndpointsMatch(acc.entityMap, studentRels[k], cr)}))

RECURSIVE CardinalityLoop(_, _, _, _, _)
CardinalityLoop(acc, correctRels, i, studentRels, minMax) ==
    IF i > Len(correctRels) THEN acc
    ELSE CardinalityLoop(CardinalityStep(acc, correctRels[i], studentRels, minMax),
                         correctRels, i + 1, studentRels, minMax)

(***************************************************************************)
(* calculateGrades                                                         *)
(***************************************************************************)

\* A JavaScript object used as a map from strings: its keys in insertion
\* order (what Object.keys returns) and their values.
EmptyObject == [keys |-> << >>, val |-> << >>]

\* obj[key] = value
ObjectSet(obj, key, value) ==
    [keys |-> IF \E i \in 1..Len(obj.keys) : obj.keys[i] = key
              THEN obj.keys ELSE Append(obj.keys, key),
     val |-> (key :> value) @@ obj.val]

\* A rubric criterion; maxPoints is a number, category and description strings.
Criterion(category, maxPoints, description) ==
    [category |-> category, maxPoints |-> maxPoints, description |-> description]

HasFormula(match) == match # Undef

\* Branch with the entity branch as the chain's final else.
BranchElseEntity(categoryLower) ==
    IF includes(categoryLower, kw_entit) THEN "entity"
    ELSE IF includes(categoryLower, kw_attribute) \/ includes(categoryLower, kw_key)
    THEN "attribute"
    ELSE IF includes(categoryLower, kw_relationship) /\ ~includes(categoryLower, kw_cardinality)
    THEN "relationship"
    ELSE IF includes(categoryLower, kw_cardinality) THEN "cardinality"
    ELSE "entity"

\* The branch of the if / else-if chain that grades a lower-cased category.
Branch(categoryLower) ==
    IF includes(categoryLower, kw_entit) THEN "entity"
    ELSE IF includes(categoryLower, kw_attribute) \/ includes(categoryLower, kw_key)
    THEN "attribute"
    ELSE IF includes(categoryLower, kw_relationship) /\ ~includes(categoryLower, kw_cardinality)
    THEN "relationship"
    ELSE IF includes(categoryLower, kw_cardinality) THEN "cardinality"
    ELSE "none"

\* if (!multiplierMatch && expectedCount > 0) multiplier = maxPoints / expectedCount
FinalMultiplier(match, multiplier, expectedCount, maxPoints) ==
    IF ~HasFormula(match) /\ expectedCount > 0
    THEN Over(maxPoints, Num(expectedCount))
    ELSE multiplier

\* Earned without the per-category cap.
EarnedUncapped(correctCount, multiplier, maxPoints) == Times(Num(correctCount), multiplier)

\* const earned = Math.min(correctCount * multiplier, maxPoints)
Earned(correctCount, multiplier, maxPoints) ==
    MathMin(Times(Num(correctCount), multiplier), maxPoints)

\* let multiplier = 1, or parseFloat(multiplierMatch[1])
Multiplier0(match) == IF HasFormula(match) THEN parseFloat(match[1]) ELSE Num(1)

\* let expectedCount = 0, or parseInt(multiplierMatch[2])
Expected0(match) == IF HasFormula(match) THEN parseInt(match[2]) ELSE 0

\* The if / else-if chain of a criterion: the matching loop of its branch.
Classify(acc0, branch, categoryLower, studentElements, correctElements, expected0) ==
    CASE branch = "entity" ->
           EntityLoop(acc0, filterElementsByContext(correctElements, "entity", categoryLower),
                      1, OfType(studentElements, "entity"))
      [] branch = "attribute" ->
           AttributeLoop(acc0,
                         filterElementsByContext(correctElements, "attribute", categoryLower),
                         1, OfType(studentElements, "attribute"),
                         isSpecificSection(categoryLower))
      [] branch = "relationship" ->
           MarkExtras(
             RelationshipLoop(acc0,
                 filterElementsByContext(correctElements, "relationship", categoryLower),
                 1, OfType(studentElements, "relationship")),
             OfType(studentElements, "relationship"), 1)
      [] branch = "cardinality" ->
           CardinalityLoop(acc0, OfType(correctElements, "relationship"), 1,
                           OfType(studentElements, "relationship"),
                           useMinMax(expected0, Len(OfType(correctElements, "relationship"))))
      [] OTHER -> acc0

\* expectedCount at the end of the criterion: the formula's count, or, in the
\* entity, attribute and relationship branches,
\* if (!multiplierMatch) expectedCount = targetCorrectElements.length
ExpectedCount(match, branch, categoryLower, correctElements) ==
    IF ~HasFormula(match) /\ branch \in {"entity", "attribute", "relationship"}
    THEN Len(filterElementsByContext(correctElements, branch, categoryLower))
    ELSE Expected0(match)

\* The end of the criterion: the breakdown row and the lists pushed on result.
\* rows is an auxiliary sequence (not in the code) that keeps what each
\* criterion computed, in rubric order.
PushRow(st, criterion, branch, acc, expectedCount, multiplier, earned) ==
    [result |->
       [totalScore |-> Plus(st.result.totalScore, earned),
        maxScore |-> st.result.maxScore,
        breakdown |-> Append(st.result.breakdown,
                             [category |-> criterion.category, earned |-> ToFixed2(earned),
                              max |-> criterion.maxPoints, feedback |-> Text("")]),
        correctElements |->
            ObjectSet(st.result.correctElements, criterion.category, acc.correctItems),
        missingElements |->
            ObjectSet(st.result.missingElements, criterion.category, acc.missing),
        incorrectElements |->
            ObjectSet(st.result.incorrectElements, criterion.category, acc.incorrect),
        debug |-> ObjectSet(st.result.debug, criterion.category,
                            [expectedCount |-> expectedCount,
                             correctCount |-> acc.correctCount,
                             multiplier |-> multiplier,
                             missing |-> acc.missing,
                             incorrect |-> acc.incorrect])],
     matchedStudentIds |-> acc.matched,
     entityMap |-> acc.entityMap,
     rows |-> Append(st.rows,
                     [branch |-> branch,
                      expectedCount |-> expectedCount,
                      correctCount |-> acc.correctCount,
                      multiplier |-> multiplier,
                      earned |-> earned,
                      correctItems |-> acc.correctItems,
                      missing |-> acc.missing,
                      incorrect |-> acc.incorrect,
                      matchedBefore |-> st.matchedStudentIds,
                      matchedAfter |-> acc.matched,
                      entityMap |-> acc.entityMap,
                      extraIds |-> acc.extraIds])]

GradeScored(st, criterion, branch, acc, expectedCount, multiplier) ==
    PushRow(st, criterion, branch, acc, expectedCount, multiplier,
            Earned(acc.correctCount, multiplier, criterion.maxPoints))

GradeClassified(st, criterion, match, branch, acc, expectedCount) ==
    GradeScored(st, criterion, branch, acc, expectedCount,
                FinalMultiplier(match, Multiplier0(match), expectedCount, criterion.maxPoints))

GradeBranch(st, criterion, studentElements, correctElements, categoryLower, match, branch) ==
    GradeClassified(st, criterion, match, branch,
        Classify(Acc(st.matchedStudentIds, st.entityMap), branch, categoryLower,
                 studentElements, correctElements, Expected0(match)),
        ExpectedCount(match, branch, categoryLower, correctElements))

GradeParsed(st, criterion, studentElements, correctElements, categoryLower, match) ==
    GradeBranch(st, criterion, studentElements, correctElements, categoryLower, match,
                Branch(categoryLower))

\* The body of rubric.criteria.forEach(criterion => ...). st is the state of the
\* run: result, matchedStudentIds and entityMap (and the auxiliary rows).
GradeCriterion(st, criterion, studentElements, correctElements) ==
    GradeParsed(st, criterion, studentElements, correctElements,
                toLowerCase(criterion.category), multiplierMatch(criterion.description))

RECURSIVE GradeLoop(_, _, _, _, _)
GradeLoop(st, criteria, i, studentElements, correctElements) ==
    IF i > Len(criteria) THEN st
    ELSE GradeLoop(GradeCriterion(st, criteria[i], studentElements, correctElements),
                   criteria, i + 1, studentElements, correctElements)

\* Whether calculateGrades throws a TypeError: the rubric is undefined, or a
\* criterion has no category (category.toLowerCase) or no description
\* (description.match).
GradingThrows(hasRubric, rubric) ==
    \/ ~hasRubric
    \/ \E i \in 1..Len(rubric.criteria) :
         rubric.criteria[i].category = Undef \/ rubric.criteria[i].description = Undef

NoGrading == [none |-> TRUE]

\* The result object the call starts from.
NewResult(rubric) ==
    [totalScore |-> Num(0),
     maxScore |-> rubric.totalPoints,
     breakdown |-> << >>,
     correctElements |-> EmptyObject,
     missingElements |-> EmptyObject,
     incorrectElements |-> EmptyObject,
     debug |-> EmptyObject]

\* NewRun with matchedStudentIds and entityMap kept at module level: a call
\* starts from what the latest call on the server left in them.
SharedRun(rubric) ==
    [result |-> NewResult(rubric),
     matchedStudentIds |-> IF peer.grading # NoGrading THEN peer.grading.matchedStudentIds
                           ELSE IF grading # NoGrading THEN grading.matchedStudentIds
                           ELSE {},
     entityMap |-> IF peer.grading # NoGrading THEN peer.grading.entityMap
                   ELSE IF grading # NoGrading THEN grading.entityMap
                   ELSE << >>,
     rows |-> << >>]

\* The state a call of calculateGrades starts from: const result = {...},
\* const matchedStudentIds = new Set(), const entityMap = {}.
NewRun(rubric) ==
    [result |-> NewResult(rubric), matchedStudentIds |-> {}, entityMap |-> << >>,
     rows |-> << >>]

\* The message of the TypeError calculateGrades throws: rubric.totalPoints on an
\* undefined rubric, or category.toLowerCase / description.match on undefined.
GradingError(hasRubric) ==
    IF ~hasRubric THEN Text("Cannot read properties of undefined (reading 'totalPoints')")
    ELSE Text("Cannot read properties of undefined (reading 'toLowerCase')")

\* calculateGrades(studentElements, correctElements, rubric), when it returns:
\* the result object, with the auxiliary rows, matched ids and alias map.
calculateGrades(studentElements, correctElements, rubric) ==
    LET st == GradeLoop(NewRun(rubric), rubric.criteria, 1, studentElements, correctElements)
    IN [st EXCEPT !.result.totalScore = ToFixed2(@)]

(***************************************************************************)
(* The /autograde-erd handler                                              *)
(***************************************************************************)


\* What JSON.parse(cleanContent) returns: null, or an object whose fields
\* breakdown (an array of rows), feedback and overallComment may be absent.
FeedbackData(isNull, hasBreakdown, breakdown, feedback, overallComment) ==
    [isNull |-> isNull, hasBreakdown |-> hasBreakdown, breakdown |-> breakdown,
     feedback |-> feedback, overallComment |-> overallComment]

NoResponse == [status |-> 0, body |-> Absent]

NoReply == [kind |-> "none"]

\* No second request on the server.
NoPeer == [pc |-> "idle", body |-> Absent, grading |-> NoGrading]

\* No direct call of areStringsSemanticallySimilar.
NoProbe == [str1 |-> Undef, str2 |-> Undef, asked |-> FALSE, out |-> FALSE]

\* MissingData without the check of correctAnswer.elements.
MissingDataShallow(b) ==
    \/ "studentElements" \notin b.has
    \/ "correctAnswer" \notin b.has

\* if (!studentElements || !correctAnswer || !correctAnswer.elements)
MissingData(b) ==
    \/ "studentElements" \notin b.has
    \/ "correctAnswer" \notin b.has
    \/ "correctAnswer.elements" \notin b.has

\* The 400 response of the validation.
MissingDataResponse ==
    [status |-> 400,
     body |-> [error |-> Text("Missing required data"),
               message |-> Text("Need studentElements, correctAnswer, and rubricStructured")]]

\* The 500 response of the catch block for an error with the given message.
FailureResponse(message) ==
    [status |-> 500,
     body |-> [error |-> Text("Auto-grading failed"), message |-> message]]

\* Object.keys(obj).flatMap(k => obj[k]), from key i on
RECURSIVE FlatValues(_, _)
FlatValues(obj, i) ==
    IF i > Len(obj.keys) THEN << >>
    ELSE obj.val[obj.keys[i]] \o FlatValues(obj, i + 1)

\* The feedbackData of the catch (parseError) block: templated feedback built
\* from the grading lists.
FallbackFeedback(g) ==
    [isNull |-> FALSE,
     hasBreakdown |-> TRUE,
     breakdown |->
       [i \in 1..Len(g.breakdown) |->
          [category |-> g.breakdown[i].category,
           feedback |-> [tpl |-> "You earned ${b.earned} out of ${b.max} points in this category.",
                         earned |-> g.breakdown[i].earned, max |-> g.breakdown[i].max]]],
     feedback |->
       [correct |-> [i \in 1..Len(g.correctElements.keys) |->
                       [tpl |-> "${k}: ${grading.correctElements[k]} correct",
                        k |-> g.correctElements.keys[i],
                        items |-> g.correctElements.val[g.correctElements.keys[i]]]],
        missing |-> FlatValues(g.missingElements, 1),
        incorrect |-> FlatValues(g.incorrectElements, 1)],
     overallComment |-> [tpl |-> "You scored ${grading.totalScore} out of ${grading.maxScore} points.",
                         totalScore |-> g.totalScore, maxScore |-> g.maxScore]]

\* A value is truthy: a feedback string that is present and not ''.
Truthy(v) == v # Absent /\ v # Text("")

\* feedbackData.breakdown[i]?.feedback || `You earned ${item.earned}/${item.max} points.`
RowFeedback(feedbackData, i, item) ==
    IF /\ i <= Len(feedbackData.breakdown)
       /\ Truthy(feedbackData.breakdown[i].feedback)
    THEN feedbackData.breakdown[i].feedback
    ELSE [tpl |-> "You earned ${item.earned}/${item.max} points.",
          earned |-> item.earned, max |-> item.max]

\* Whether building finalResult throws a TypeError: feedbackData is null, or it
\* has no breakdown and grading.breakdown has a row to map.
MergeThrows(g, feedbackData) ==
    \/ feedbackData.isNull
    \/ ~feedbackData.hasBreakdown /\ Len(g.breakdown) > 0

\* The message of the TypeError the merge throws.
MergeError(feedbackData) ==
    IF feedbackData.isNull THEN Text("Cannot read properties of null (reading 'breakdown')")
    ELSE Text("Cannot read properties of undefined (reading '0')")

\* finalResult with one row for each row of feedbackData.breakdown instead of
\* one for each row of grading.breakdown.
finalResultFromModel(g, feedbackData) ==
    [totalScore |-> g.totalScore,
     maxScore |-> g.maxScore,
     breakdown |-> [i \in 1..Len(feedbackData.breakdown) |->
                      [category |-> IF i <= Len(g.breakdown) THEN g.breakdown[i].category
                                    ELSE << >>,
                       earned |-> IF i <= Len(g.breakdown) THEN g.breakdown[i].earned
                                  ELSE Num(0),
                       max |-> IF i <= Len(g.breakdown) THEN g.breakdown[i].max ELSE Num(0),
                       feedback |-> feedbackData.breakdown[i].feedback]],
     feedback |-> feedbackData.feedback,
     overallComment |-> feedbackData.overallComment,
     debug |-> g.debug]

\* finalResult, STEP 3: the code's numbers with the model's prose.
finalResult(g, feedbackData) ==
    [totalScore |-> g.totalScore,
     maxScore |-> g.maxScore,
     breakdown |-> [i \in 1..Len(g.breakdown) |->
                      [category |-> g.breakdown[i].category,
                       earned |-> g.breakdown[i].earned,
                       max |-> g.breakdown[i].max,
                       feedback |-> RowFeedback(feedbackData, i, g.breakdown[i])]],
     feedback |-> feedbackData.feedback,
     overallComment |-> feedbackData.overallComment,
     debug |-> g.debug]

\* The outcomes of the outbound call and of reading its reply.
\*   "rejected"   fetch rejects (no connection)
\*   "not_ok"     a reply whose ok is false
\*   "no_choices" a reply whose JSON has no choices[0].message.content
\*   "invalid"    content that JSON.parse rejects
\*   "parsed"     content that JSON.parse accepts, giving reply.data
Reply(kind, data) == [kind |-> kind, data |-> data]

\* The three ways into the handler's first segment (up to the first await).

\* The validation rejects the request.
RejectMissing ==
    /\ pc = "start"
    /\ MissingData(body)
    /\ response' = MissingDataResponse
    /\ cause' = "missing"
    /\ sent' = sent + 1
    /\ pc' = "done"
    /\ UNCHANGED << body, grading, upstream, gradeCalls, fetchCalls, peer, probe >>

\* calculateGrades throws; the catch block answers.
GradingFails ==
    /\ pc = "start"
    /\ ~MissingData(body)
    /\ GradingThrows("rubricStructured" \in body.has, body.rubricStructured)
    /\ gradeCalls' = gradeCalls + 1
    /\ response' = FailureResponse(GradingError("rubricStructured" \in body.has))
    /\ cause' = "grading"
    /\ sent' = sent + 1
    /\ pc' = "done"
    /\ UNCHANGED << body, grading, upstream, fetchCalls, peer, probe >>

\* GradeAndAsk without the validation's early return before it.
GradeAndAskUnvalidated ==
    /\ pc = "start"
    /\ ~GradingThrows("rubricStructured" \in body.has, body.rubricStructured)
    /\ gradeCalls' = gradeCalls + 1
    /\ grading' = calculateGrades(body.studentElements, body.correctElements,
                                  body.rubricStructured)
    /\ fetchCalls' = fetchCalls + 1
    /\ pc' = "awaiting"
    /\ UNCHANGED << body, upstream, response, cause, sent, peer, probe >>

\* calculateGrades returns and the feedback call is issued.
GradeAndAsk ==
    /\ pc = "start"
    /\ ~MissingData(body)
    /\ ~GradingThrows("rubricStructured" \in body.has, body.rubricStructured)
    /\ gradeCalls' = gradeCalls + 1
    /\ grading' = calculateGrades(body.studentElements, body.correctElements,
                                  body.rubricStructured)
    /\ fetchCalls' = fetchCalls + 1
    /\ pc' = "awaiting"
    /\ UNCHANGED << body, upstream, response, cause, sent, peer, probe >>

\* The request gets past the validation and calculateGrades does not throw:
\* the guard of GradeAndAsk.
CanGrade ==
    /\ pc = "start"
    /\ ~MissingData(body)
    /\ ~GradingThrows("rubricStructured" \in body.has, body.rubricStructured)

\* The handler's continuation when the outbound call settles with `reply`.
FeedbackSettles(reply) ==
    /\ pc = "awaiting"
    /\ LET g == grading.result
           feedbackData == IF reply.kind = "invalid" THEN FallbackFeedback(g)
                           ELSE reply.data
       IN CASE reply.kind = "rejected" ->
                 /\ response' = FailureResponse(Text("fetch failed"))
                 /\ cause' = "upstream"
            [] reply.kind = "not_ok" ->
                 /\ response' = FailureResponse(
                        Text("OpenRouter failed: ${aiResponse.statusText} - ${errorText}"))
                 /\ cause' = "upstream"
            [] reply.kind = "no_choices" ->
                 /\ response' = FailureResponse(
                        Text("Cannot read properties of undefined (reading '0')"))
                 /\ cause' = "upstream"
            [] OTHER ->
                 IF MergeThrows(g, feedbackData)
                 THEN /\ response' = FailureResponse(MergeError(feedbackData))
                      /\ cause' = "upstream"
                 ELSE /\ response' = [status |-> 200, body |-> finalResult(g, feedbackData)]
                      /\ cause' = "none"
    /\ upstream' = reply
    /\ sent' = sent + 1
    /\ pc' = "done"
    /\ UNCHANGED << body, grading, gradeCalls, fetchCalls, peer, probe >>

(***************************************************************************)
(* The requests the model sends                                            *)
(***************************************************************************)

nCar == << "C", "a", "r" >>
nCars == << "C", "a", "r", "s" >>
nBus == << "B", "u", "s" >>
nId == << "i", "d" >>
nOwns == << "O", "w", "n", "s" >>
nUses == << "U", "s", "e", "s" >>
nDrives == << "D", "r", "i", "v", "e", "s" >>
tag11 == << "1", ".", ".", "1" >>
tag0M == << "0", ".", ".", "M" >>
tag1M == << "1", ".", ".", "M" >>
catEntities == << "E", "n", "t", "i", "t", "i", "e", "s" >>
catWeakEntities == << "W", "e", "a", "k", " ", "E", "n", "t", "i", "t", "i", "e", "s" >>
catAttributes == << "A", "t", "t", "r", "i", "b", "u", "t", "e", "s" >>
catPrimaryKeys == << "P", "r", "i", "m", "a", "r", "y", " ", "K", "e", "y", "s" >>
catRelationships == << "R", "e", "l", "a", "t", "i", "o", "n", "s", "h", "i", "p", "s" >>
catWeakRelationships == << "W", "e", "a", "k", " ", "R", "e", "l", "a", "t", "i", "o", "n", "s", "h", "i", "p", "s" >>
catCardinality == << "C", "a", "r", "d", "i", "n", "a", "l", "i", "t", "y" >>
catNotation == << "N", "o", "t", "a", "t", "i", "o", "n" >>
descNone == << "e", "a", "c", "h", " ", "c", "o", "r", "r", "e", "c", "t" >>
desc1x2 == << "1", " ", "x", " ", "2" >>
descHalfx2 == << "0", ".", "5", " ", "x", " ", "2" >>
desc1x4 == << "1", " ", "x", " ", "4" >>
descHalfx8 == << "0", ".", "5", " ", "x", " ", "8" >>

\* The elements requests are built from; an element's id is its place here.
eCar == Element("e1", nCar, "entity", "strong", Undef, Undef, Undef, Undef, Undef)
eCarsWeak == Element("e2", nCars, "entity", "weak", Undef, Undef, Undef, Undef, Undef)
eBus == Element("e3", nBus, "entity", "weak", Undef, Undef, Undef, Undef, Undef)
eIdKey == Element("e4", nId, "attribute", "primary_key", Undef, Undef, Undef, Undef, nCar)
eIdPlain == Element("e5", nId, "attribute", "regular", Undef, Undef, Undef, Undef, nCars)
eOwns == Element("e6", nOwns, "relationship", "strong", nCar, nBus, tag11, tag0M, Undef)
eOwnsBack == Element("e7", nOwns, "relationship", "weak", nBus, nCar, tag0M, tag11, Undef)
eUses == Element("e8", nUses, "relationship", "strong", nCar, nCar, tag11, tag0M, Undef)
eOwnedBy == Element("e9", nOwns, "relationship", "strong", nBus, nCar, tag1M, tag11, Undef)
eIdOfBus == Element("e10", nId, "attribute", "primary_key", Undef, Undef, Undef, Undef, nBus)
eDrives == Element("e11", nDrives, "relationship", "strong", nCar, nBus, tag11, tag0M, Undef)

StudentPool == << eCar, eCarsWeak, eBus, eIdKey, eIdPlain, eOwns, eOwnsBack, eUses >>

CorrectPool == << eCar, eBus, eIdKey, eOwns, eUses >>

\* The longest student list drawn from StudentPool.
MaxElems == 2

\* The elements of pool at the positions in idx, in pool order.
Pick(pool, idx) == SelectSeq(pool, LAMBDA e : \E i \in idx : pool[i] = e)

\* The correct answers: an empty diagram, diagrams that grow one element at a
\* time, diagrams with a relationship of an entity with itself, a diagram
\* whose tags and owners differ from the student pool's, and a diagram with
\* two relationships between the same two entities.
CorrectAnswers ==
    {Pick(CorrectPool, 1..n) : n \in 0..Len(CorrectPool)}
    \cup {<< eCar, eUses >>, << eOwns, eUses >>, << eIdOfBus, eOwnedBy >>,
          << eOwns, eDrives >>}

\* The student lists graded against a correct answer: every selection of at most
\* MaxElems elements of StudentPool, and the verbatim copy of the answer.
StudentLists(correct) ==
    {Pick(StudentPool, idx) :
        idx \in {x \in SUBSET (1..Len(StudentPool)) : Cardinality(x) <= MaxElems}}
    \cup {correct}

cEntities == Criterion(catEntities, Num(2), descNone)
cEntitiesEach == Criterion(catEntities, Num(1), desc1x2)
cWeakEntities == Criterion(catWeakEntities, Num(1), descNone)
cAttributes == Criterion(catAttributes, Num(2), descNone)
cPrimaryKeys == Criterion(catPrimaryKeys, Num(1), descHalfx2)
cRelationships == Criterion(catRelationships, Num(2), descNone)
cWeakRelationships == Criterion(catWeakRelationships, Num(1), descNone)
cCardinality == Criterion(catCardinality, Num(4), descNone)
cCardinalityParts == Criterion(catCardinality, Num(4), desc1x4)
cCardinalityTags == Criterion(catCardinality, Num(2), desc1x2)
cCardinalityEight == Criterion(catCardinality, Num(4), descHalfx8)
cNotation == Criterion(catNotation, Num(1), descNone)

\* The sum of the criteria's maxPoints, as /detect-rubric sets totalPoints.
RECURSIVE SumMaxPoints(_)
SumMaxPoints(criteria) ==
    IF criteria = << >> THEN Num(0)
    ELSE Plus(Head(criteria).maxPoints, SumMaxPoints(Tail(criteria)))

CriteriaLists ==
    { << >>,
      << cEntities >>, << cEntitiesEach >>, << cWeakEntities >>, << cAttributes >>,
      << cPrimaryKeys >>, << cRelationships >>, << cWeakRelationships >>,
      << cCardinality >>, << cCardinalityParts >>, << cCardinalityTags >>, << cNotation >>,
      << cEntities, cPrimaryKeys, cRelationships, cCardinalityParts >>,
      << cWeakRelationships, cRelationships, cCardinalityTags >>,
      << cRelationships, cWeakRelationships, cAttributes, cEntitiesEach >>,
      << cCardinalityEight, cCardinalityParts >>,
      << cPrimaryKeys, cAttributes, cNotation >> }

\* The rubrics: totalPoints as /detect-rubric computes it, and, since the
\* handler takes the rubric from the request as it is, a totalPoints of 1.
Rubrics ==
    {[totalPoints |-> SumMaxPoints(cs), criteria |-> cs] : cs \in CriteriaLists}
    \cup {[totalPoints |-> Num(1), criteria |-> cs] :
             cs \in {<< cEntities >>, << cRelationships >>,
                     << cEntities, cPrimaryKeys, cRelationships, cCardinalityParts >>}}

NoRubric == [totalPoints |-> Num(0), criteria |-> << >>]

AllFields == {"studentElements", "correctAnswer", "correctAnswer.elements", "rubricStructured"}

Body(has, studentElements, correctElements, rubricStructured) ==
    [has |-> has, studentElements |-> studentElements, correctElements |-> correctElements,
     rubricStructured |-> rubricStructured]

\* req.body with every field.
FullRequests ==
    UNION {{Body(AllFields, st, co, ru) : st \in StudentLists(co), ru \in Rubrics} :
           co \in CorrectAnswers}

\* req.body without its rubric, and without one of the validated fields (a
\* missing correctAnswer has no elements either).
PartialRequests ==
    {Body(AllFields \ {"rubricStructured"}, co, co, NoRubric) : co \in CorrectAnswers}
    \cup {Body(AllFields \ {"studentElements"}, << >>, co, ru) :
             co \in CorrectAnswers, ru \in Rubrics}
    \cup {Body(AllFields \ {"correctAnswer.elements"}, st, << >>, ru) :
             st \in StudentLists(<< >>), ru \in Rubrics}
    \cup {Body(AllFields \ {"correctAnswer", "correctAnswer.elements"}, st, << >>, ru) :
             st \in StudentLists(<< >>), ru \in Rubrics}

Requests == FullRequests \cup PartialRequests

\* The rows of a breakdown array the feedback model may return: prose that is
\* present, empty or absent, each with numbers of the model's own.
AiRowText == [category |-> Text("ai category"), earned |-> Num(99), max |-> Num(100),
              feedback |-> Text("ai feedback")]
AiRowEmpty == [category |-> Text("ai category"), earned |-> Num(99), max |-> Num(100),
               feedback |-> Text("")]
AiRowBare == [category |-> Text("ai category"), earned |-> Num(99), max |-> Num(100),
              feedback |-> Absent]

\* The longest breakdown array the feedback model returns.
MaxAiRows == 2

AiBreakdowns ==
    UNION {[1..n -> {AiRowText, AiRowEmpty, AiRowBare}] : n \in 0..MaxAiRows}

AiFeedback == [correct |-> << Text("ai strength") >>,
               missing |-> << Text("ai missing") >>,
               incorrect |-> << Text("ai error") >>]

\* What JSON.parse can return for the feedback model's content.
FeedbackDatas ==
    {FeedbackData(TRUE, FALSE, << >>, Absent, Absent),
     FeedbackData(FALSE, FALSE, << >>, Absent, Absent),
     FeedbackData(FALSE, FALSE, << >>, AiFeedback, Text("ai comment"))}
    \cup {FeedbackData(FALSE, TRUE, bd, AiFeedback, Text("ai comment")) : bd \in AiBreakdowns}
    \cup {FeedbackData(FALSE, TRUE, << >>, fb, oc) :
             fb \in {Absent, AiFeedback}, oc \in {Absent, Text("ai comment")}}

Replies ==
    {Reply(k, FeedbackData(TRUE, FALSE, << >>, Absent, Absent)) :
        k \in {"rejected", "not_ok", "no_choices", "invalid"}}
    \cup {Reply("parsed", d) : d \in FeedbackDatas}

(***************************************************************************)
(* The specification                                                       *)
(***************************************************************************)

Init ==
    /\ body \in Requests
    /\ pc = "start"
    /\ grading = NoGrading
    /\ upstream = NoReply
    /\ response = NoResponse
    /\ cause = "none"
    /\ gradeCalls = 0
    /\ fetchCalls = 0
    /\ sent = 0
    /\ peer = NoPeer
    /\ probe = NoProbe

Next ==
    \/ RejectMissing
    \/ GradingFails
    \/ GradeAndAsk
    \/ \E reply \in Replies : FeedbackSettles(reply)

Spec == Init /\ [][Next]_vars

\* A rubric whose totalPoints is the sum of its criteria's maxPoints.
Rubric(criteria) == [totalPoints |-> SumMaxPoints(criteria), criteria |-> criteria]

\* One request for each way through the handler: valid ones, one without its
\* rubric, and one without each validated field.
AnsweredRequests ==
    {Body(AllFields, << eOwns >>, << eOwns >>,
          Rubric(<< cWeakRelationships, cRelationships, cCardinalityTags >>)),
     Body(AllFields, << eCar, eIdKey >>, << eCar, eIdKey >>,
          Rubric(<< cEntities, cPrimaryKeys, cRelationships, cCardinalityParts >>)),
     Body(AllFields, << eCarsWeak, eIdPlain >>, << eCar, eBus, eIdKey >>,
          Rubric(<< cRelationships, cWeakRelationships, cAttributes, cEntitiesEach >>)),
     Body(AllFields, << eOwnsBack >>, << eOwns, eUses >>,
          Rubric(<< cWeakRelationships, cRelationships, cCardinalityTags >>)),
     Body(AllFields, << >>, << eCar >>, Rubric(<< cEntities >>)),
     Body(AllFields \ {"rubricStructured"}, << eCar >>, << eCar >>, NoRubric),
     Body(AllFields \ {"studentElements"}, << >>, << eCar >>, Rubric(<< cEntities >>)),
     Body(AllFields \ {"correctAnswer.elements"}, << eCar >>, << >>,
          Rubric(<< cEntities >>)),
     Body(AllFields \ {"correctAnswer", "correctAnswer.elements"}, << eCar >>, << >>,
          Rubric(<< cEntities >>))}

\* One of these requests has arrived.
InitAnswered ==
    /\ body \in AnsweredRequests
    /\ pc = "start"
    /\ grading = NoGrading
    /\ upstream = NoReply
    /\ response = NoResponse
    /\ cause = "none"
    /\ gradeCalls = 0
    /\ fetchCalls = 0
    /\ sent = 0
    /\ peer = NoPeer
    /\ probe = NoProbe

\* The handler's first segment is synchronous and runs to its end once the
\* request has arrived; its continuation runs when the outbound fetch settles,
\* by resolving or by rejecting.  The handler sets no timeout of its own on
\* that fetch: that it settles is the assumption this fairness states.
\* The weak fairness of GradeAndAsk is written out, with CanGrade for its
\* enabling condition.
SpecAnswered ==
    /\ InitAnswered
    /\ [][Next]_vars
    /\ WF_vars(RejectMissing)
    /\ WF_vars(GradingFails)
    /\ []<>(~CanGrade) \/ []<><<GradeAndAsk>>_vars
    /\ WF_vars(\E reply \in Replies : FeedbackSettles(reply))

(***************************************************************************)
(* Two requests in flight.  calculateGrades has no await: a call runs from *)
(* start to end, and the handlers of two requests interleave only at the   *)
(* await of the feedback call.                                             *)
(***************************************************************************)

\* The requests of the second handler: all valid.
PeerRequests ==
    {Body(AllFields, << eOwns >>, << eOwns >>,
          Rubric(<< cWeakRelationships, cRelationships, cCardinalityTags >>)),
     Body(AllFields, << eCar, eIdKey >>, << eCar, eIdKey >>,
          Rubric(<< cEntities, cPrimaryKeys, cRelationships, cCardinalityParts >>)),
     Body(AllFields, << eCarsWeak, eIdPlain >>, << eCar, eBus, eIdKey >>,
          Rubric(<< cRelationships, cWeakRelationships, cAttributes, cEntitiesEach >>)),
     Body(AllFields, << eOwnsBack >>, << eOwns, eUses >>,
          Rubric(<< cWeakRelationships, cRelationships, cCardinalityTags >>))}

\* The requests of the first handler: the same, one without its rubric and
\* one without studentElements.
ConcurrentRequests ==
    PeerRequests
    \cup {Body(AllFields \ {"rubricStructured"}, << eCar >>, << eCar >>, NoRubric),
          Body(AllFields \ {"studentElements"}, << >>, << eCar >>, Rubric(<< cEntities >>))}

\* The second handler runs its first segment: validation passes,
\* calculateGrades returns, the feedback call is issued.
PeerGrades ==
    /\ peer.pc = "start"
    /\ peer' = [peer EXCEPT
                  !.pc = "awaiting",
                  !.grading = calculateGrades(peer.body.studentElements,
                                              peer.body.correctElements,
                                              peer.body.rubricStructured)]
    /\ UNCHANGED << body, pc, grading, upstream, response, cause, gradeCalls, fetchCalls,
                    sent, probe >>

\* The second handler's feedback call settles and it answers.
PeerSettles ==
    /\ peer.pc = "awaiting"
    /\ peer' = [peer EXCEPT !.pc = "done"]
    /\ UNCHANGED << body, pc, grading, upstream, response, cause, gradeCalls, fetchCalls,
                    sent, probe >>

InitConcurrent ==
    /\ body \in ConcurrentRequests
    /\ pc = "start"
    /\ grading = NoGrading
    /\ upstream = NoReply
    /\ response = NoResponse
    /\ cause = "none"
    /\ gradeCalls = 0
    /\ fetchCalls = 0
    /\ sent = 0
    /\ peer \in {[pc |-> "start", body |-> b, grading |-> NoGrading] : b \in PeerRequests}
    /\ probe = NoProbe

NextConcurrent == Next \/ PeerGrades \/ PeerSettles

SpecConcurrent == InitConcurrent /\ [][NextConcurrent]_vars

\* calculateGrades has returned.
Graded == grading # NoGrading

\* calculateGrades has just returned: the handler holds its outcome and is
\* about to await the model's reply.
Returned == pc = "awaiting" /\ grading # NoGrading

\* The correct-answer elements a criterion grades: the filtered elements of
\* its category's type, every relationship for cardinality, none when no
\* classifier takes the category.
GradedElements(criterion) ==
    IF Branch(toLowerCase(criterion.category)) = "none" THEN << >>
    ELSE IF Branch(toLowerCase(criterion.category)) = "cardinality"
    THEN OfType(body.correctElements, "relationship")
    ELSE filterElementsByContext(body.correctElements,
                                 Branch(toLowerCase(criterion.category)),
                                 criterion.category)

(***************************************************************************)
(* areStringsSemanticallySimilar called directly                           *)
(***************************************************************************)

\* The arguments: missing, empty, punctuation only, and names that differ by
\* case, plural, tense, word order, separators, a typo or a suffix.
ProbeStrings ==
    {Undef, << >>, << "-" >>, << " " >>,
     nCar, nCars, nBus, nId, nOwns,
     << "c", "a", "r" >>, << "C", "a", "r", "d" >>, << "C", "a", "r", "e", "d" >>,
     << "B", "u", "s", "e", "s" >>, << "i", "d", "s" >>,
     << "C", "a", "r", " ", "B", "u", "s" >>, << "b", "u", "s", "_", "c", "a", "r" >>,
     << "C", "u", "s", "t", "o", "m", "e", "r" >>, << "C", "u", "s", "t", "m", "e", "r" >>,
     << "C", "u", "s", "t", "o", "m", "e", "r", "N", "a", "m", "e" >>}

\* The call areStringsSemanticallySimilar(probe.str1, probe.str2).
Compare ==
    /\ ~probe.asked
    /\ probe' = [probe EXCEPT
                   !.asked = TRUE,
                   !.out = areStringsSemanticallySimilar(probe.str1, probe.str2)]
    /\ UNCHANGED << body, pc, grading, upstream, response, cause, gradeCalls, fetchCalls,
                    sent, peer >>

InitSimilar ==
    /\ body = Absent
    /\ pc = "idle"
    /\ grading = NoGrading
    /\ upstream = NoReply
    /\ response = NoResponse
    /\ cause = "none"
    /\ gradeCalls = 0
    /\ fetchCalls = 0
    /\ sent = 0
    /\ peer = NoPeer
    /\ probe \in {[str1 |-> a, str2 |-> b, asked |-> FALSE, out |-> FALSE] :
                     a \in ProbeStrings, b \in ProbeStrings}

NextSimilar == Compare

SpecSimilar == InitSimilar /\ [][NextSimilar]_vars

(***************************************************************************)
(* The /detect-erd handler.  body is the request: its endpoint and whether *)
(* it has the field the handler needs.  pc is "image" while the image is   *)
(* downloaded and "awaiting" while the model is asked.                     *)
(***************************************************************************)

DigitChars == << "0", "1", "2", "3", "4", "5", "6", "7", "8", "9" >>

\* String(n) for a natural number n.
RECURSIVE Decimal(_)
Decimal(n) ==
    IF n < 10 THEN << DigitChars[n + 1] >>
    ELSE Decimal(n \div 10) \o << DigitChars[(n % 10) + 1] >>

\* result.elements.map((el, idx) => ({ ...el, id: el.id || `el_${idx + 1}` }));
\* position k of the sequence is idx = k - 1.
WithIds(elements) ==
    [k \in 1..Len(elements) |->
       [elements[k] EXCEPT
          !.id = IF Falsy(@) THEN << "e", "l", "_" >> \o Decimal(k) ELSE @]]

\* The request has no imageUrl.
ErdRejectMissing ==
    /\ pc = "start"
    /\ body.endpoint = "detect-erd"
    /\ ~body.hasInput
    /\ response' = [status |-> 400, body |-> [error |-> Text("Missing imageUrl")]]
    /\ cause' = "missing"
    /\ sent' = sent + 1
    /\ pc' = "done"
    /\ UNCHANGED << body, grading, upstream, gradeCalls, fetchCalls, peer, probe >>

\* The download of the image is started.
ErdFetchImage ==
    /\ pc = "start"
    /\ body.endpoint = "detect-erd"
    /\ body.hasInput
    /\ fetchCalls' = fetchCalls + 1
    /\ pc' = "image"
    /\ UNCHANGED << body, grading, upstream, response, cause, gradeCalls, sent, peer, probe >>

\* The download settles: aborted by the 60 s timer, failed, answered with a
\* non-OK status, or done, and then the model is asked.
ImageSettles(outcome) ==
    /\ pc = "image"
    /\ upstream' = [kind |-> outcome]
    /\ CASE outcome = "ok" ->
              /\ fetchCalls' = fetchCalls + 1
              /\ pc' = "awaiting"
              /\ UNCHANGED << response, cause, sent >>
         [] outcome = "aborted" ->
              /\ response' = [status |-> 408,
                               body |-> [error |-> Text("Request timeout"),
                                         message |-> Text("Image analysis took too long"),
                                         isERD |-> FALSE]]
              /\ cause' = "timeout"
              /\ sent' = sent + 1
              /\ pc' = "done"
              /\ UNCHANGED fetchCalls
         [] OTHER ->
              /\ response' = [status |-> 500,
                               body |-> [error |-> Text("AI detection failed"),
                                         message |-> IF outcome = "not_ok"
                                                     THEN Text("Failed to fetch image")
                                                     ELSE Text("fetch failed"),
                                         isERD |-> FALSE]]
              /\ cause' = "image"
              /\ sent' = sent + 1
              /\ pc' = "done"
              /\ UNCHANGED fetchCalls
    /\ UNCHANGED << body, grading, gradeCalls, peer, probe >>

\* The model's call settles with reply: the call failed, or its content was
\* parsed to reply.data, whose ids are completed before it is sent.
ErdSettles(reply) ==
    /\ pc = "awaiting"
    /\ body.endpoint = "detect-erd"
    /\ upstream' = reply
    /\ IF reply.kind = "parsed"
       THEN /\ response' =
                 [status |-> 200,
                  body |-> IF reply.data.isERD /\ reply.data.hasElements
                           THEN [reply.data EXCEPT !.elements = WithIds(@)]
                           ELSE reply.data]
            /\ cause' = "none"
       ELSE /\ response' =
                 [status |-> 500,
                  body |-> [error |-> Text("AI detection failed"),
                            message |->
                              CASE reply.kind = "rejected" -> Text("fetch failed")
                                [] reply.kind = "not_ok" ->
                                     Text("OpenRouter failed: ${aiResponse.statusText} - ${errorText}")
                                [] reply.kind = "no_choices" ->
                                     Text("Cannot read properties of undefined (reading '0')")
                                [] reply.kind = "null" ->
                                     Text("Cannot read properties of null (reading 'isERD')")
                                [] OTHER -> Text("Unexpected token"),
                            isERD |-> FALSE]]
            /\ cause' = "upstream"
    /\ sent' = sent + 1
    /\ pc' = "done"
    /\ UNCHANGED << body, grading, gradeCalls, fetchCalls, peer, probe >>

(***************************************************************************)
(* The /detect-rubric handler.  A JSON value that is a number is           *)
(* [num |-> q], a string [str |-> s], null [null |-> TRUE]; a missing      *)
(* field is Absent.                                                        *)
(***************************************************************************)

JsonNull == [null |-> TRUE]

\* parseFloat(item.maxPoints) without the || 0.
MaxPointsOrNaN(maxPoints) ==
    IF "num" \in DOMAIN maxPoints THEN maxPoints.num
    ELSE IF "str" \in DOMAIN maxPoints THEN parseFloat(maxPoints.str)
    ELSE NaN

\* parseFloat(item.maxPoints) || 0
MaxPointsOrZero(maxPoints) ==
    IF "num" \in DOMAIN maxPoints THEN maxPoints.num
    ELSE IF "str" \in DOMAIN maxPoints
    THEN IF IsNaN(parseFloat(maxPoints.str)) THEN Num(0) ELSE parseFloat(maxPoints.str)
    ELSE Num(0)

\* result.criteria.reduce((sum, item) => sum + (parseFloat(item.maxPoints) || 0), 0)
\* over the first n items.
RECURSIVE realTotal(_, _)
realTotal(criteria, n) ==
    IF n = 0 THEN Num(0)
    ELSE Plus(realTotal(criteria, n - 1), MaxPointsOrZero(criteria[n].maxPoints))

\* The request has no rubricText.
RubricRejectMissing ==
    /\ pc = "start"
    /\ body.endpoint = "detect-rubric"
    /\ ~body.hasInput
    /\ response' = [status |-> 400, body |-> [error |-> Text("Missing rubricText")]]
    /\ cause' = "missing"
    /\ sent' = sent + 1
    /\ pc' = "done"
    /\ UNCHANGED << body, grading, upstream, gradeCalls, fetchCalls, peer, probe >>

\* The model is asked.
RubricAsk ==
    /\ pc = "start"
    /\ body.endpoint = "detect-rubric"
    /\ body.hasInput
    /\ fetchCalls' = fetchCalls + 1
    /\ pc' = "awaiting"
    /\ UNCHANGED << body, grading, upstream, response, cause, gradeCalls, sent, peer, probe >>

\* The message of the error thrown after the model's call settled with reply,
\* Absent when nothing is thrown.  A parsed result throws when it is not an
\* object, or when an item of its criteria array is null (item.maxPoints).
RubricError(reply) ==
    CASE reply.kind = "rejected" -> Text("fetch failed")
      [] reply.kind = "not_ok" -> Text("OpenRouter failed: ${aiResponse.statusText}")
      [] reply.kind = "bad_structure" -> Text("AI returned invalid response structure")
      [] reply.kind = "invalid" -> Text("AI returned invalid JSON format")
      [] reply.kind = "not_object" -> Text("AI response is not a valid object")
      [] OTHER ->
           IF /\ reply.data.criteriaKind = "array"
              /\ \E k \in 1..Len(reply.data.criteria) : reply.data.criteria[k] = JsonNull
           THEN Text("Cannot read properties of null (reading 'maxPoints')")
           ELSE Absent

\* The model's call settles with reply; a result parsed at the first or the
\* second attempt gets its totalPoints recomputed when criteria is an array.
RubricSettles(reply) ==
    /\ pc = "awaiting"
    /\ body.endpoint = "detect-rubric"
    /\ upstream' = reply
    /\ IF RubricError(reply) = Absent
       THEN /\ response' =
                 [status |-> 200,
                  body |-> IF reply.data.criteriaKind = "array"
                           THEN [reply.data EXCEPT
                                   !.totalPoints =
                                      [num |-> realTotal(reply.data.criteria,
                                                         Len(reply.data.criteria))]]
                           ELSE reply.data]
            /\ cause' = "none"
       ELSE /\ response' =
                 [status |-> 500,
                  body |-> [error |-> Text("Rubric analysis failed"),
                            message |-> RubricError(reply),
                            isERDRubric |-> FALSE]]
            /\ cause' = "upstream"
    /\ sent' = sent + 1
    /\ pc' = "done"
    /\ UNCHANGED << body, grading, gradeCalls, fetchCalls, peer, probe >>

(***************************************************************************)
(* The two detection endpoints: requests, the model's replies, and the     *)
(* specification.                                                          *)
(***************************************************************************)

DetectRequests ==
    {[endpoint |-> e, hasInput |-> h] : e \in {"detect-erd", "detect-rubric"}, h \in BOOLEAN}

\* The ids the model gives an element: none, empty, or a name of its own.
DetectedIds ==
    {Undef, << >>, << "e", "l", "_", "1" >>, << "e", "l", "_", "2" >>, << "e", "l", "_", "3" >>}

DetectedElements == {[id |-> i, name |-> nCar, type |-> "entity"] : i \in DetectedIds}

\* The longest elements list the model returns.
MaxDetected == 2

\* The sequences over S of length at most n.
SeqsUpTo(S, n) == UNION {[1..k -> S] : k \in 0..n}

\* What JSON.parse returns for /detect-erd: an ERD with or without an elements
\* list, or a rejection.
ErdResults ==
    {[isERD |-> TRUE, hasElements |-> TRUE, elements |-> els, rejectionReason |-> Absent] :
        els \in SeqsUpTo(DetectedElements, MaxDetected)}
    \cup {[isERD |-> TRUE, hasElements |-> FALSE, elements |-> << >>,
           rejectionReason |-> Absent],
          [isERD |-> FALSE, hasElements |-> FALSE, elements |-> << >>,
           rejectionReason |-> Text("This is a flowchart, not an ERD")],
          [isERD |-> FALSE, hasElements |-> TRUE,
           elements |-> << [id |-> Undef, name |-> nCar, type |-> "entity"] >>,
           rejectionReason |-> Text("This is a flowchart, not an ERD")]}

ErdReplies ==
    {[kind |-> k, data |-> Absent] :
        k \in {"rejected", "not_ok", "no_choices", "invalid", "null"}}
    \cup {[kind |-> "parsed", data |-> r] : r \in ErdResults}

ImageOutcomes == {"ok", "aborted", "failed", "not_ok"}

\* The maxPoints the model gives a criterion: numbers, numeric and other
\* strings, null, or none.
MaxPointsValues ==
    {[num |-> Num(2)], [num |-> << 3, 2 >>], [num |-> Num(0)],
     [str |-> << "1", ".", "5" >>], [str |-> << "t", "e", "n" >>], JsonNull, Absent}

RubricItems ==
    {[category |-> catEntities, maxPoints |-> v] : v \in MaxPointsValues} \cup {JsonNull}

\* The longest criteria array the model returns.
MaxCriteria == 2

\* The totalPoints the model reports.
ReportedTotals == {Absent, [num |-> Num(2)], [num |-> Num(32)]}

\* What JSON.parse returns for /detect-rubric when it is an object.
RubricResults ==
    {[isERDRubric |-> TRUE, criteriaKind |-> "array", criteria |-> cs, totalPoints |-> t] :
        cs \in SeqsUpTo(RubricItems, MaxCriteria), t \in ReportedTotals}
    \cup {[isERDRubric |-> TRUE, criteriaKind |-> "other", criteria |-> << >>,
           totalPoints |-> [num |-> Num(32)]],
          [isERDRubric |-> FALSE, criteriaKind |-> "absent", criteria |-> << >>,
           totalPoints |-> Absent]}

RubricReplies ==
    {[kind |-> k, data |-> Absent] :
        k \in {"rejected", "not_ok", "bad_structure", "invalid", "not_object"}}
    \cup {[kind |-> k, data |-> r] : k \in {"parsed", "fixed"}, r \in RubricResults}

InitDetect ==
    /\ body \in DetectRequests
    /\ pc = "start"
    /\ grading = NoGrading
    /\ upstream = NoReply
    /\ response = NoResponse
    /\ cause = "none"
    /\ gradeCalls = 0
    /\ fetchCalls = 0
    /\ sent = 0
    /\ peer = NoPeer
    /\ probe = NoProbe

NextDetect ==
    \/ ErdRejectMissing
    \/ ErdFetchImage
    \/ \E outcome \in ImageOutcomes : ImageSettles(outcome)
    \/ \E reply \in ErdReplies : ErdSettles(reply)
    \/ RubricRejectMissing
    \/ RubricAsk
    \/ \E reply \in RubricReplies : RubricSettles(reply)

SpecDetect == InitDetect /\ [][NextDetect]_vars

(***************************************************************************)
(* Properties                                                              *)
(***************************************************************************)

\* Both handlers were given the same (studentElements, correctElements, rubric).
SameTriple ==
    /\ peer.body # Absent
    /\ peer.body.studentElements = body.studentElements
    /\ peer.body.correctElements = body.correctElements
    /\ peer.body.rubricStructured = body.rubricStructured

C12_SimilarSymmetric ==
    probe.asked => probe.out = areStringsSemanticallySimilar(probe.str2, probe.str1)

\* A call that answers true because the second argument, cleaned, contains the
\* first and is longer by more than the typo rule allows.
C12_Witness ==
    /\ probe.asked
    /\ probe.out
    /\ includes(Clean(probe.str2), Clean(probe.str1))
    /\ Len(Clean(probe.str2)) > Len(Clean(probe.str1)) + 2

\* The relationships of the correct answer, which a cardinality criterion walks.
CorrectRels == OfType(body.correctElements, "relationship")

\* The comparisons a cardinality row made: each one pushed an entry on
\* correctItems or on incorrect.
Comparisons(row) == Len(row.correctItems) + Len(row.incorrect)

\* The correct relationships a cardinality row found in the submission.
FoundRels(row) == Len(CorrectRels) - Len(row.missing)

\* C13: a cardinality criterion makes 4 comparisons per matched relationship
\* (COMPONENT mode) exactly when expectedCount / number of correct
\* relationships >= 3.5, and 2 per matched relationship (ENDPOINT mode)
\* otherwise.
C13_ModeSelection ==
    Returned =>
      \A i \in 1..Len(grading.rows) :
        (grading.rows[i].branch = "cardinality" /\ Len(CorrectRels) > 0) =>
          IF 2 * grading.rows[i].expectedCount >= 7 * Len(CorrectRels)
          THEN Comparisons(grading.rows[i]) = 4 * FoundRels(grading.rows[i])
          ELSE Comparisons(grading.rows[i]) = 2 * FoundRels(grading.rows[i])

\* A run over two correct relationships with a criterion declaring 8 items,
\* graded in COMPONENT mode, and one declaring 4 items, graded in ENDPOINT mode.
C13_Witness ==
    /\ Returned
    /\ Len(CorrectRels) = 2
    /\ \E i, k \in 1..Len(grading.rows) :
         /\ grading.rows[i].branch = "cardinality"
         /\ grading.rows[i].expectedCount = 8
         /\ FoundRels(grading.rows[i]) > 0
         /\ Comparisons(grading.rows[i]) = 4 * FoundRels(grading.rows[i])
         /\ grading.rows[k].branch = "cardinality"
         /\ grading.rows[k].expectedCount = 4
         /\ FoundRels(grading.rows[k]) > 0
         /\ Comparisons(grading.rows[k]) = 2 * FoundRels(grading.rows[k])

StudentRels == OfType(body.studentElements, "relationship")

\* The position in StudentRels of the relationship that a relationship
\* criterion with alias map entityMap matches to cr, 0 when there is none.
RelMatchOf(entityMap, cr) ==
    Find({k \in 1..Len(StudentRels) :
            RelationshipMatches(StudentRels[k], cr,
                                EndpointsMatch(entityMap, StudentRels[k], cr))})

\* cr is matched by endpoints to a student relationship of another subType.
RelWrongType(entityMap, cr) ==
    /\ RelMatchOf(entityMap, cr) # 0
    /\ StudentRels[RelMatchOf(entityMap, cr)].subType # cr.subType

\* cr is matched by endpoints to a student relationship of its own subType.
RelRightType(entityMap, cr) ==
    /\ RelMatchOf(entityMap, cr) # 0
    /\ StudentRels[RelMatchOf(entityMap, cr)].subType = cr.subType

IncorrectTypeItem(cr, sr) ==
    Item("${cr.name} (Incorrect Type: You used '${match.subType}' diamond, expected '${cr.subType}')",
         << cr.name >>, << sr.subType, cr.subType >>)

RelTypeMismatchHandled(row, targets) ==
    /\ row.correctCount =
         Cardinality({t \in 1..Len(targets) : RelRightType(row.entityMap, targets[t])})
    /\ \A t \in 1..Len(targets) :
         RelWrongType(row.entityMap, targets[t]) =>
           /\ \E j \in 1..Len(row.incorrect) :
                row.incorrect[j] =
                  IncorrectTypeItem(targets[t],
                                    StudentRels[RelMatchOf(row.entityMap, targets[t])])
           /\ \A j \in 1..Len(row.correctItems) :
                row.correctItems[j].names[1] # targets[t].name
           /\ StudentRels[RelMatchOf(row.entityMap, targets[t])].id \notin row.extraIds
           /\ \A j \in 1..Len(row.incorrect) :
                row.incorrect[j] #
                  Item("Extra relationship: ${sr.name}",
                       << StudentRels[RelMatchOf(row.entityMap, targets[t])].name >>, << >>)

\* C15: in a relationship criterion, a correct relationship whose endpoint
\* match is a student relationship of another subType adds nothing to
\* correctCount and has no entry in correctItems, has an 'Incorrect Type'
\* entry in incorrect, and its student relationship is not reported as
\* 'Extra relationship' by that criterion.
C15_TypeMismatchNotExtra ==
    Returned =>
      \A i \in 1..Len(grading.rows) :
        grading.rows[i].branch = "relationship" =>
          RelTypeMismatchHandled(grading.rows[i],
                                 GradedElements(body.rubricStructured.criteria[i]))

C15_Witness ==
    /\ Returned
    /\ \E i \in 1..Len(grading.rows) :
         /\ grading.rows[i].branch = "relationship"
         /\ \E t \in 1..Len(GradedElements(body.rubricStructured.criteria[i])) :
              RelWrongType(grading.rows[i].entityMap,
                           GradedElements(body.rubricStructured.criteria[i])[t])
         /\ Len(StudentRels) = 2

\* The position in StudentRels of the relationship that a cardinality
\* criterion with alias map entityMap finds for cr, 0 when there is none.
CardMatchOf(entityMap, cr) ==
    Find({k \in 1..Len(StudentRels) : EndpointsMatch(entityMap, StudentRels[k], cr)})

\* The student's tag compared with cr.cardinalityFrom: the tag at the end of
\* the found relationship that the code aligns with cr.from.
StudentFromTag(entityMap, cr) ==
    IF isFlipped(entityMap, StudentRels[CardMatchOf(entityMap, cr)], cr)
    THEN StudentRels[CardMatchOf(entityMap, cr)].cardinalityTo
    ELSE StudentRels[CardMatchOf(entityMap, cr)].cardinalityFrom

\* The student's tag compared with cr.cardinalityTo.
StudentToTag(entityMap, cr) ==
    IF isFlipped(entityMap, StudentRels[CardMatchOf(entityMap, cr)], cr)
    THEN StudentRels[CardMatchOf(entityMap, cr)].cardinalityFrom
    ELSE StudentRels[CardMatchOf(entityMap, cr)].cardinalityTo

\* The components of the four comparisons of cr that are equal, by the name of
\* the entry each pushes on correctItems.
EqualComponents(entityMap, cr) ==
    IF CardMatchOf(entityMap, cr) = 0 THEN {}
    ELSE {c \in {"${cr.name} start-min", "${cr.name} start-max",
                 "${cr.name} end-min", "${cr.name} end-max"} :
            CASE c = "${cr.name} start-min" ->
                   MinMax(StudentFromTag(entityMap, cr)).min = MinMax(cr.cardinalityFrom).min
              [] c = "${cr.name} start-max" ->
                   MinMax(StudentFromTag(entityMap, cr)).max = MinMax(cr.cardinalityFrom).max
              [] c = "${cr.name} end-min" ->
                   MinMax(StudentToTag(entityMap, cr)).min = MinMax(cr.cardinalityTo).min
              [] c = "${cr.name} end-max" ->
                   MinMax(StudentToTag(entityMap, cr)).max = MinMax(cr.cardinalityTo).max}

\* The number of equal components over the correct relationships from k on.
RECURSIVE EqualComponentCount(_, _)
EqualComponentCount(entityMap, k) ==
    IF k > Len(CorrectRels) THEN 0
    ELSE Cardinality(EqualComponents(entityMap, CorrectRels[k]))
         + EqualComponentCount(entityMap, k + 1)

\* The entries of correctItems that the from side of cr pushed.
FromSideCredits(row, cr) ==
    Cardinality({j \in 1..Len(row.correctItems) :
                   /\ row.correctItems[j].names = << cr.name >>
                   /\ row.correctItems[j].tpl \in {"${cr.name} start-min",
                                                    "${cr.name} start-max"}})

ComponentsIndependent(row) ==
    /\ row.correctCount = EqualComponentCount(row.entityMap, 1)
    /\ row.correctCount = Len(row.correctItems)
    /\ \A k \in 1..Len(CorrectRels) :
         /\ \A c \in {"${cr.name} start-min", "${cr.name} start-max",
                       "${cr.name} end-min", "${cr.name} end-max"} :
              (c \in EqualComponents(row.entityMap, CorrectRels[k]))
                <=> \E j \in 1..Len(row.correctItems) :
                      row.correctItems[j] = Item(c, << CorrectRels[k].name >>, << >>)
         /\ ( /\ CardMatchOf(row.entityMap, CorrectRels[k]) # 0
              /\ CorrectRels[k].cardinalityFrom = tag1M
              /\ StudentFromTag(row.entityMap, CorrectRels[k]) = tag0M
              /\ row.multiplier = Over(Num(1), Num(2)) )
            => Times(Num(FromSideCredits(row, CorrectRels[k])), row.multiplier)
                 = Over(Num(1), Num(2))

\* C16: in COMPONENT mode the four components of a matched relationship are
\* compared one by one: correctCount is the number of equal components, each
\* equal component has its own correctItems entry and no other has one; with
\* correct cardinalityFrom '1..M', student '0..M' and multiplier 0.5 the from
\* side contributes 0.5.
C16_ComponentsIndependent ==
    Returned =>
      \A i \in 1..Len(grading.rows) :
        ( /\ grading.rows[i].branch = "cardinality"
          /\ Len(CorrectRels) > 0
          /\ useMinMax(grading.rows[i].expectedCount, Len(CorrectRels)) )
        => ComponentsIndependent(grading.rows[i])

C16_Witness ==
    /\ Returned
    /\ \E i \in 1..Len(grading.rows) :
         /\ grading.rows[i].branch = "cardinality"
         /\ Len(CorrectRels) > 0
         /\ useMinMax(grading.rows[i].expectedCount, Len(CorrectRels))
         /\ grading.rows[i].multiplier = Over(Num(1), Num(2))
         /\ CardMatchOf(grading.rows[i].entityMap, CorrectRels[1]) # 0
         /\ CorrectRels[1].cardinalityFrom = tag1M
         /\ StudentFromTag(grading.rows[i].entityMap, CorrectRels[1]) = tag0M
         /\ grading.rows[i].correctCount = 3
         /\ grading.rows[i].earned = Over(Num(3), Num(2))

StudentEntities == OfType(body.studentElements, "entity")

\* The position in StudentEntities of the entity that an entity criterion
\* matches to ce by name, 0 when there is none.
EntityMatchOf(ce) ==
    Find({k \in 1..Len(StudentEntities) :
            areStringsSemanticallySimilar(StudentEntities[k].name, ce.name)})

\* ce is matched by name to a student entity of another subType.
EntityWrongType(ce) ==
    /\ EntityMatchOf(ce) # 0
    /\ StudentEntities[EntityMatchOf(ce)].subType # ce.subType

EntityMismatchAliased(row, ce, se) ==
    /\ \E j \in 1..Len(row.incorrect) :
         row.incorrect[j] =
           Item("${ce.name} (Incorrect Type: You used '${match.subType}', expected '${ce.subType}')",
                << ce.name >>, << se.subType, ce.subType >>)
    /\ \A j \in 1..Len(row.missing) : row.missing[j].names # << ce.name >>
    /\ se.id \in row.matchedAfter
    /\ ToStr(se.name) \in DOMAIN row.entityMap
    /\ row.entityMap[ToStr(se.name)] = ce.name

\* C17: in an entity criterion, a correct entity whose name match is a student
\* entity of another subType is recorded in incorrect and not in missing, the
\* student entity is consumed, and the alias map sends the student's entity
\* name to the correct entity's name.
C17_MismatchStillAliased ==
    Returned =>
      \A i \in 1..Len(grading.rows) :
        grading.rows[i].branch = "entity" =>
          \A t \in 1..Len(GradedElements(body.rubricStructured.criteria[i])) :
            EntityWrongType(GradedElements(body.rubricStructured.criteria[i])[t]) =>
              EntityMismatchAliased(
                grading.rows[i],
                GradedElements(body.rubricStructured.criteria[i])[t],
                StudentEntities[
                  EntityMatchOf(GradedElements(body.rubricStructured.criteria[i])[t])])

\* Some entry of the row's incorrect list names the student element se.
NamedIncorrect(row, se) ==
    \E j \in 1..Len(row.incorrect) :
      \E n \in 1..Len(row.incorrect[j].names) : row.incorrect[j].names[n] = se.name

\* C18: at the end of an entity criterion every student entity that no match
\* consumed is reported as an extra in the criterion's incorrect list.
C18_UnconsumedEntitiesExtra ==
    Returned =>
      \A i \in 1..Len(grading.rows) :
        grading.rows[i].branch = "entity" =>
          \A k \in 1..Len(StudentEntities) :
            StudentEntities[k].id \notin grading.rows[i].matchedAfter =>
              NamedIncorrect(grading.rows[i], StudentEntities[k])

StudentAttrs == OfType(body.studentElements, "attribute")

\* The student attribute sa has a name similar to ca's and an owner that,
\* read through the alias map when it has the name, is similar to ca's owner.
NameAndOwnerSimilar(entityMap, sa, ca) ==
    /\ areStringsSemanticallySimilar(sa.name, ca.name)
    /\ areStringsSemanticallySimilar(
         IF ToStr(sa.belongsTo) \in DOMAIN entityMap /\ ~Falsy(entityMap[ToStr(sa.belongsTo)])
         THEN entityMap[ToStr(sa.belongsTo)] ELSE sa.belongsTo,
         ca.belongsTo)

\* The position in StudentAttrs of the first attribute with a name and owner
\* similar to ca's, 0 when there is none.
AttrMatchOf(entityMap, ca) ==
    Find({k \in 1..Len(StudentAttrs) : NameAndOwnerSimilar(entityMap, StudentAttrs[k], ca)})

AttrSameShape(entityMap, ca) ==
    /\ AttrMatchOf(entityMap, ca) # 0
    /\ StudentAttrs[AttrMatchOf(entityMap, ca)].subType = ca.subType

AttrOtherShape(entityMap, ca) ==
    /\ AttrMatchOf(entityMap, ca) # 0
    /\ StudentAttrs[AttrMatchOf(entityMap, ca)].subType # ca.subType

\* A row of a section that names a specific notation.
StrictRow(row, targets) ==
    /\ row.correctCount =
         Cardinality({t \in 1..Len(targets) : AttrSameShape(row.entityMap, targets[t])})
    /\ Len(row.incorrect) =
         Cardinality({t \in 1..Len(targets) : AttrOtherShape(row.entityMap, targets[t])})
    /\ \A t \in 1..Len(targets) :
         AttrOtherShape(row.entityMap, targets[t]) =>
           /\ \E j \in 1..Len(row.incorrect) : row.incorrect[j].names = << targets[t].name >>
           /\ \A j \in 1..Len(row.correctItems) :
                row.correctItems[j].names[1] # targets[t].name

\* A row of a generic section.
LenientRow(row, targets) ==
    /\ row.correctCount =
         Cardinality({t \in 1..Len(targets) : AttrMatchOf(row.entityMap, targets[t]) # 0})
    /\ row.incorrect = << >>
    /\ \A t \in 1..Len(targets) :
         AttrMatchOf(row.entityMap, targets[t]) # 0 =>
           \E j \in 1..Len(row.correctItems) :
             row.correctItems[j].names[1] = targets[t].name

\* C19: in an attribute criterion whose category names a specific notation, a
\* correct attribute is credited only when its name-and-owner match has the
\* same subType, and a match of another subType gives no credit and an entry
\* in incorrect; in a generic attribute criterion every name-and-owner match
\* is credited, whatever its subType.
C19_StrictAndLenientSections ==
    Returned =>
      \A i \in 1..Len(grading.rows) :
        grading.rows[i].branch = "attribute" =>
          IF isSpecificSection(toLowerCase(body.rubricStructured.criteria[i].category))
          THEN StrictRow(grading.rows[i], GradedElements(body.rubricStructured.criteria[i]))
          ELSE LenientRow(grading.rows[i], GradedElements(body.rubricStructured.criteria[i]))

C19_Witness ==
    /\ Returned
    /\ \E i, k \in 1..Len(grading.rows) :
         /\ body.rubricStructured.criteria[i].category = catPrimaryKeys
         /\ body.rubricStructured.criteria[k].category = catAttributes
         /\ Len(GradedElements(body.rubricStructured.criteria[i])) = 1
         /\ AttrOtherShape(grading.rows[i].entityMap,
                           GradedElements(body.rubricStructured.criteria[i])[1])
         /\ grading.rows[i].correctCount = 0
         /\ Len(grading.rows[i].incorrect) = 1
         /\ AttrOtherShape(grading.rows[k].entityMap,
                           GradedElements(body.rubricStructured.criteria[k])[1])
         /\ grading.rows[k].correctCount = 1

\* The correct attributes of targets that some student attribute matches by
\* name and resolved owner.
Matchable(entityMap, targets) ==
    {t \in 1..Len(targets) :
       \E k \in 1..Len(StudentAttrs) :
         NameAndOwnerSimilar(entityMap, StudentAttrs[k], targets[t])}

NeedsNameAndOwner(row, targets) ==
    /\ row.correctCount + Len(row.incorrect) = Cardinality(Matchable(row.entityMap, targets))
    /\ Len(row.missing) = Len(targets) - Cardinality(Matchable(row.entityMap, targets))
    /\ \A t \in (1..Len(targets)) \ Matchable(row.entityMap, targets) :
         /\ \E j \in 1..Len(row.missing) :
              row.missing[j] = Item("${ca.name} in ${ca.belongsTo}",
                                    << targets[t].name, targets[t].belongsTo >>, << >>)
         /\ \A j \in 1..Len(row.correctItems) :
              row.correctItems[j].names[1] # targets[t].name

\* C20: an attribute criterion matches a correct attribute only to a student
\* attribute whose name is similar and whose owner, resolved through the alias
\* map, is similar to the correct attribute's owner; a correct attribute with
\* no such student attribute is missing and uncredited, even when a student
\* attribute of a similar name exists under another owner.
C20_NameAndOwnerRequired ==
    Returned =>
      \A i \in 1..Len(grading.rows) :
        grading.rows[i].branch = "attribute" =>
          NeedsNameAndOwner(grading.rows[i],
                            GradedElements(body.rubricStructured.criteria[i]))

C20_Witness ==
    /\ Returned
    /\ \E i \in 1..Len(grading.rows) :
         /\ grading.rows[i].branch = "attribute"
         /\ Len(GradedElements(body.rubricStructured.criteria[i])) = 1
         /\ Matchable(grading.rows[i].entityMap,
                      GradedElements(body.rubricStructured.criteria[i])) = {}
         /\ \E k \in 1..Len(StudentAttrs) :
              areStringsSemanticallySimilar(
                StudentAttrs[k].name,
                GradedElements(body.rubricStructured.criteria[i])[1].name)
         /\ Len(grading.rows[i].missing) = 1
         /\ grading.rows[i].correctCount = 0

\* What calculateGrades computes for criterion when it is the only criterion
\* of the rubric, on the request's two element lists.
GradedAlone(criterion) ==
    calculateGrades(body.studentElements, body.correctElements, Rubric(<< criterion >>))

SameOutcome(row, line, alone) ==
    /\ row.correctItems = alone.rows[1].correctItems
    /\ row.missing = alone.rows[1].missing
    /\ row.incorrect = alone.rows[1].incorrect
    /\ line = alone.result.breakdown[1]

\* C21: the breakdown row and the correct, missing and incorrect lists of a
\* criterion are those the criterion gets when it is graded on its own: they
\* do not depend on the other criteria of the rubric or on their order.
C21_CriteriaIndependent ==
    Returned =>
      \A i \in 1..Len(grading.rows) :
        SameOutcome(grading.rows[i], grading.result.breakdown[i],
                    GradedAlone(body.rubricStructured.criteria[i]))

\* The category has none of the substrings the classifiers look for.
Unclassified(category) ==
    /\ ~includes(toLowerCase(category), kw_entit)
    /\ ~includes(toLowerCase(category), kw_attribute)
    /\ ~includes(toLowerCase(category), kw_key)
    /\ ~includes(toLowerCase(category), kw_relationship)
    /\ ~includes(toLowerCase(category), kw_cardinality)

SilentRow(row, line, criterion) ==
    /\ row.correctCount = 0
    /\ row.correctItems = << >> /\ row.missing = << >> /\ row.incorrect = << >>
    /\ row.earned = Num(0)
    /\ line.category = criterion.category
    /\ line.earned = Num(0)
    /\ line.max = criterion.maxPoints

\* C22: a criterion whose category matches no classifier is graded without an
\* error: the run returns one breakdown row per criterion, and that
\* criterion's row has correctCount 0, adds 0 to totalScore and shows earned 0
\* and max = maxPoints.
C22_UnknownCategorySilent ==
    Returned =>
      /\ Len(grading.result.breakdown) = Len(body.rubricStructured.criteria)
      /\ \A i \in 1..Len(grading.rows) :
           Unclassified(body.rubricStructured.criteria[i].category) =>
             SilentRow(grading.rows[i], grading.result.breakdown[i],
                       body.rubricStructured.criteria[i])

C22_Witness ==
    /\ Returned
    /\ \E i \in 1..Len(grading.rows) :
         /\ Unclassified(body.rubricStructured.criteria[i].category)
         /\ i = 3
         /\ grading.rows[i].earned = Num(0)
         /\ grading.result.totalScore # Num(0)
         /\ Len(OfType(body.studentElements, "entity")) > 0

\* C23: a criterion whose expectedCount is 0 earns 0.
C23_ZeroExpectedEarnsZero ==
    Returned =>
      \A i \in 1..Len(grading.rows) :
        grading.rows[i].expectedCount = 0 =>
          /\ grading.rows[i].earned = Num(0)
          /\ grading.result.breakdown[i].earned = Num(0)

\* The student relationship sr has the orientation of cr: its resolved ends
\* are similar to cr's ends in the same order.
SameOrientation(entityMap, sr, cr) ==
    /\ areStringsSemanticallySimilar(Mapped(entityMap, sr.from), cr.from)
    /\ areStringsSemanticallySimilar(Mapped(entityMap, sr.to), cr.to)

\* The student relationship sr states the cardinality facts of cr: the same
\* tags at the same ends when it has cr's orientation, the tags swapped when
\* its ends are swapped.
SameFacts(entityMap, sr, cr) ==
    IF SameOrientation(entityMap, sr, cr)
    THEN sr.cardinalityFrom = cr.cardinalityFrom /\ sr.cardinalityTo = cr.cardinalityTo
    ELSE sr.cardinalityFrom = cr.cardinalityTo /\ sr.cardinalityTo = cr.cardinalityFrom

\* Every comparison the row made for cr was credited.
FullCardinalityCredit(row, cr) ==
    /\ \A j \in 1..Len(row.incorrect) : row.incorrect[j].names[1] # cr.name
    /\ \E j \in 1..Len(row.correctItems) : row.correctItems[j].names[1] = cr.name

\* C24: a cardinality criterion aligns the student's tags with the correct
\* relationship's ends: unswapped when the student relationship has the
\* correct one's orientation (also when from and to are the same name),
\* swapped when its ends are swapped; so a found relationship that states the
\* correct cardinality facts is credited in full in either orientation.
C24_OrientationAligned ==
    Returned =>
      \A i \in 1..Len(grading.rows) :
        grading.rows[i].branch = "cardinality" =>
          \A k \in 1..Len(CorrectRels) :
            ( /\ CardMatchOf(grading.rows[i].entityMap, CorrectRels[k]) # 0
              /\ SameFacts(grading.rows[i].entityMap,
                           StudentRels[CardMatchOf(grading.rows[i].entityMap, CorrectRels[k])],
                           CorrectRels[k]) )
            => FullCardinalityCredit(grading.rows[i], CorrectRels[k])

\* The entries of list whose first interpolated name is name, extras apart.
EntriesFor(list, name) ==
    Cardinality({j \in 1..Len(list) :
                   /\ list[j].names[1] = name
                   /\ list[j].tpl # "Extra relationship: ${sr.name}"})

\* The elements of targets called name.
Named(targets, name) == Cardinality({t \in 1..Len(targets) : targets[t].name = name})

\* An entity, attribute or relationship row: one entry per graded element.
OncePerElement(row, targets) ==
    \A t \in 1..Len(targets) :
      EntriesFor(row.correctItems, targets[t].name)
        + EntriesFor(row.incorrect, targets[t].name)
        + EntriesFor(row.missing, targets[t].name)
      = Named(targets, targets[t].name)

\* A cardinality row making per comparisons for each found relationship.
OncePerRelationship(row, per) ==
    \A k \in 1..Len(CorrectRels) :
      /\ EntriesFor(row.missing, CorrectRels[k].name) <= Named(CorrectRels, CorrectRels[k].name)
      /\ EntriesFor(row.correctItems, CorrectRels[k].name)
           + EntriesFor(row.incorrect, CorrectRels[k].name)
         = per * (Named(CorrectRels, CorrectRels[k].name)
                    - EntriesFor(row.missing, CorrectRels[k].name))

\* C25: within a criterion each graded correct entity, attribute or
\* relationship has exactly one entry among correctItems, the type-mismatch
\* entries of incorrect and missing; each correct relationship of a
\* cardinality criterion has one missing entry or else exactly 4 (COMPONENT)
\* or 2 (ENDPOINT) entries among correctItems and incorrect.
C25_AccountedOnce ==
    Returned =>
      \A i \in 1..Len(grading.rows) :
        CASE grading.rows[i].branch \in {"entity", "attribute", "relationship"} ->
               OncePerElement(grading.rows[i],
                              GradedElements(body.rubricStructured.criteria[i]))
          [] grading.rows[i].branch = "cardinality" ->
               OncePerRelationship(
                 grading.rows[i],
                 IF useMinMax(grading.rows[i].expectedCount, Len(CorrectRels))
                 THEN 4 ELSE 2)
          [] OTHER -> TRUE

C25_Witness ==
    /\ Returned
    /\ \E i, k \in 1..Len(grading.rows) :
         /\ grading.rows[i].branch = "entity"
         /\ Len(grading.rows[i].incorrect) = 1
         /\ Len(grading.rows[i].missing) = 1
         /\ grading.rows[k].branch = "cardinality"
         /\ Len(grading.rows[k].missing) = 1
         /\ Len(grading.rows[k].correctItems) + Len(grading.rows[k].incorrect) = 2

\* The cleaned name long is the cleaned name short plus 's', 'es' or 'ed'.
HasSuffix(long, short) ==
    \/ long = short \o << "s" >>
    \/ long = short \o << "e", "s" >>
    \/ long = short \o << "e", "d" >>

\* C26: areStringsSemanticallySimilar returns true whenever one cleaned name
\* is the other cleaned name plus a trailing 's', 'es' or 'ed', whatever the
\* length of the names.
C26_SuffixesAnyLength ==
    ( /\ probe.asked
      /\ ~Falsy(probe.str1) /\ ~Falsy(probe.str2)
      /\ Clean(probe.str1) # << >> /\ Clean(probe.str2) # << >>
      /\ \/ HasSuffix(Clean(probe.str1), Clean(probe.str2))
         \/ HasSuffix(Clean(probe.str2), Clean(probe.str1)) )
    => probe.out

\* C27: in every /detect-erd response with isERD true and an elements list,
\* the ids of the returned elements are non-empty and pairwise distinct.
C27_DetectedIdsUnique ==
    ( /\ body.endpoint = "detect-erd"
      /\ response.status = 200
      /\ response.body.isERD
      /\ response.body.hasElements )
    => /\ \A k \in 1..Len(response.body.elements) : ~Falsy(response.body.elements[k].id)
       /\ \A j, k \in 1..Len(response.body.elements) :
            j # k => response.body.elements[j].id # response.body.elements[k].id

\* C28: within a criterion a student element is matched to at most one
\* correct element, so the correctCount of an entity, attribute or
\* relationship criterion is at most the number of student elements of that
\* type.
C28_StudentElementMatchedOnce ==
    Returned =>
      \A i \in 1..Len(grading.rows) :
        grading.rows[i].branch \in {"entity", "attribute", "relationship"} =>
          grading.rows[i].correctCount
            <= Len(OfType(body.studentElements, grading.rows[i].branch))

\* s is a decimal numeral: digits with at most one dot among them.
IsNumeral(s) ==
    /\ \E k \in 1..Len(s) : s[k] \in Digits
    /\ \A k \in 1..Len(s) : s[k] \in DigitOrDot
    /\ Cardinality({k \in 1..Len(s) : s[k] = "."}) <= 1

\* The points a maxPoints stands for: a number itself, a numeral its value,
\* anything else 0.
PointsOf(maxPoints) ==
    IF "num" \in DOMAIN maxPoints THEN maxPoints.num
    ELSE IF "str" \in DOMAIN maxPoints /\ IsNumeral(maxPoints.str)
    THEN parseFloat(maxPoints.str)
    ELSE Num(0)

RECURSIVE SumOfPoints(_)
SumOfPoints(criteria) ==
    IF criteria = << >> THEN Num(0)
    ELSE Plus(PointsOf(Head(criteria).maxPoints), SumOfPoints(Tail(criteria)))

\* C29: a 200 response of /detect-rubric that has a criteria array has
\* totalPoints = the sum of the criteria's maxPoints, a non-numeric maxPoints
\* counting 0, whatever totalPoints the model reported.
C29_TotalIsSumOfMaxPoints ==
    ( /\ body.endpoint = "detect-rubric"
      /\ response.status = 200
      /\ response.body.criteriaKind = "array" )
    => response.body.totalPoints = [num |-> SumOfPoints(response.body.criteria)]

C29_Witness ==
    /\ body.endpoint = "detect-rubric"
    /\ response.status = 200
    /\ response.body.criteriaKind = "array"
    /\ Len(response.body.criteria) = 2
    /\ response.body.criteria[1].maxPoints = [str |-> << "t", "e", "n" >>]
    /\ response.body.criteria[2].maxPoints = [num |-> << 3, 2 >>]
    /\ upstream.data.totalPoints = [num |-> Num(32)]
    /\ response.body.totalPoints = [num |-> << 3, 2 >>]

\* The outbound feedback call has been issued at most once, and only for a
\* request that passed the validation and that calculateGrades has graded.
FetchAfterGrading ==
    /\ fetchCalls <= 1
    /\ fetchCalls = 1 =>
         /\ ~MissingData(body)
         /\ gradeCalls = 1
         /\ grading # NoGrading

\* No response before the handler ends, one response once it has ended.
OneResponse ==
    /\ sent <= 1
    /\ pc = "done" <=> sent = 1
    /\ sent = 1 <=> response # NoResponse

\* C30: every /autograde-erd request is answered, and answered once, whatever
\* path it takes (validation failure, grading exception, upstream failure,
\* feedback parse failure, success); the outbound feedback call is issued at
\* most once, and only after validation has passed and calculateGrades has
\* returned.
C30_AnsweredOnce ==
    /\ [](OneResponse /\ FetchAfterGrading)
    /\ <>[](sent = 1)

\* A request whose feedback could not be parsed, answered once after one
\* outbound call.
C30_Witness ==
    /\ pc = "done"
    /\ upstream.kind = "invalid"
    /\ response.status = 200
    /\ fetchCalls = 1
    /\ gradeCalls = 1
    /\ sent = 1

\* C14: a criterion whose description has a formula '<factor> x <count>' gets
\* multiplier = factor and expectedCount = count; a criterion without a formula
\* that grades at least one element gets expectedCount = the number of
\* elements it grades and multiplier = maxPoints / expectedCount, in every
\* category, cardinality included.
C14_MultiplierAndFallback ==
    Returned =>
      \A i \in 1..Len(grading.rows) :
        IF HasFormula(multiplierMatch(body.rubricStructured.criteria[i].description))
        THEN /\ grading.rows[i].multiplier =
                  parseFloat(multiplierMatch(body.rubricStructured.criteria[i].description)[1])
             /\ grading.rows[i].expectedCount =
                  parseInt(multiplierMatch(body.rubricStructured.criteria[i].description)[2])
        ELSE GradedElements(body.rubricStructured.criteria[i]) # << >> =>
               /\ grading.rows[i].expectedCount =
                    Len(GradedElements(body.rubricStructured.criteria[i]))
               /\ grading.rows[i].multiplier =
                    Over(body.rubricStructured.criteria[i].maxPoints,
                         Num(Len(GradedElements(body.rubricStructured.criteria[i]))))

\* C1: every breakdown row of calculateGrades has 0 <= earned <= max, max is
\* the criterion's maxPoints, and earned is min(correctCount * multiplier,
\* maxPoints) (rounded to two decimals in the row).
C1_EarnedWithinMax ==
    Graded =>
      \A i \in 1..Len(grading.result.breakdown) :
        /\ LessEq(Num(0), grading.result.breakdown[i].earned)
        /\ LessEq(grading.result.breakdown[i].earned, grading.result.breakdown[i].max)
        /\ grading.result.breakdown[i].max = body.rubricStructured.criteria[i].maxPoints
        /\ grading.result.breakdown[i].earned =
             ToFixed2(MathMin(Times(Num(grading.rows[i].correctCount),
                                    grading.rows[i].multiplier),
                              body.rubricStructured.criteria[i].maxPoints))

\* A graded criterion whose correctCount * multiplier exceeds maxPoints, so
\* that the cap decides earned.
C1_Witness ==
    /\ Graded
    /\ \E i \in 1..Len(grading.rows) :
         /\ ~LessEq(Times(Num(grading.rows[i].correctCount), grading.rows[i].multiplier),
                    grading.result.breakdown[i].max)
         /\ grading.result.breakdown[i].earned = grading.result.breakdown[i].max

\* C2: the result of calculateGrades has 0 <= totalScore <= maxScore, with
\* maxScore = rubric.totalPoints.
C2_TotalWithinMax ==
    Graded =>
      /\ grading.result.maxScore = body.rubricStructured.totalPoints
      /\ LessEq(Num(0), grading.result.totalScore)
      /\ LessEq(grading.result.totalScore, grading.result.maxScore)

\* C3: no student element that is matched in some criterion of the run is
\* reported as an extra in any criterion of the run.
C3_MatchedNeverExtra ==
    Graded =>
      \A i \in 1..Len(grading.rows) :
        grading.rows[i].extraIds \cap grading.matchedStudentIds = {}

\* C4: when studentElements is a verbatim copy of the correct answer, a
\* criterion earns its maxPoints and has empty missing and incorrect lists.
\* Stated for the criteria that grade at least one element and carry no
\* multiplier formula, where a full match is what the rubric asks for.
C4_VerbatimCopyFullMarks ==
    (Graded /\ body.studentElements = body.correctElements) =>
      \A i \in 1..Len(grading.rows) :
        (/\ GradedElements(body.rubricStructured.criteria[i]) # << >>
         /\ ~HasFormula(multiplierMatch(body.rubricStructured.criteria[i].description)))
        => /\ grading.result.breakdown[i].earned = grading.result.breakdown[i].max
           /\ grading.rows[i].missing = << >>
           /\ grading.rows[i].incorrect = << >>

\* C5: when studentElements is empty, every criterion has correctCount 0 and
\* earned 0, and its missing list has one entry for each correct-answer
\* element the criterion grades, naming it, in order.
C5_EmptySubmission ==
    (Graded /\ body.studentElements = << >>) =>
      \A i \in 1..Len(grading.rows) :
        /\ grading.rows[i].correctCount = 0
        /\ grading.rows[i].earned = Num(0)
        /\ grading.result.breakdown[i].earned = Num(0)
        /\ Len(grading.rows[i].missing) = Len(GradedElements(body.rubricStructured.criteria[i]))
        /\ \A k \in 1..Len(grading.rows[i].missing) :
             grading.rows[i].missing[k].names[1] =
               GradedElements(body.rubricStructured.criteria[i])[k].name

\* An empty submission graded by a criterion that grades two elements or more.
C5_Witness ==
    /\ Graded
    /\ body.studentElements = << >>
    /\ \E i \in 1..Len(grading.rows) : Len(grading.rows[i].missing) >= 2

\* C6: once calculateGrades has returned, a feedback step that fails (a reply
\* that is not OK, a reply without choices, content that is not JSON, JSON
\* without the breakdown or feedback fields) still ends with a 200 response
\* that carries the computed score.
C6_FeedbackFailureRecovered ==
    (pc = "done" /\ upstream.kind \in {"not_ok", "no_choices", "invalid", "parsed"}) =>
      /\ response.status = 200
      /\ response.body.totalScore = grading.result.totalScore

\* C7: in a 200 response totalScore, maxScore and each breakdown row's
\* category, earned and max are those calculateGrades returned, in order.
C7_ScoresAuthoritative ==
    response.status = 200 =>
      /\ response.body.totalScore = grading.result.totalScore
      /\ response.body.maxScore = grading.result.maxScore
      /\ Len(response.body.breakdown) = Len(grading.result.breakdown)
      /\ \A i \in 1..Len(grading.result.breakdown) :
           /\ response.body.breakdown[i].category = grading.result.breakdown[i].category
           /\ response.body.breakdown[i].earned = grading.result.breakdown[i].earned
           /\ response.body.breakdown[i].max = grading.result.breakdown[i].max

\* A 200 response after the feedback model returned a breakdown array of
\* another length than the rubric's, with numbers of its own.
C7_Witness ==
    /\ response.status = 200
    /\ upstream.kind = "parsed"
    /\ Len(grading.result.breakdown) > 0
    /\ Len(upstream.data.breakdown) > 0
    /\ Len(upstream.data.breakdown) # Len(grading.result.breakdown)
    /\ upstream.data.breakdown[1].earned # grading.result.breakdown[1].earned

\* One of the three validated fields is missing from the request.
FieldMissing ==
    ~({"studentElements", "correctAnswer", "correctAnswer.elements"} \subseteq body.has)

\* C8: a request with studentElements, correctAnswer or correctAnswer.elements
\* missing is answered 400, and neither calculateGrades nor the outbound
\* feedback call runs for it.
C8_MissingDataRejected ==
    FieldMissing =>
      /\ gradeCalls = 0
      /\ fetchCalls = 0
      /\ grading = NoGrading
      /\ pc = "done" => response.status = 400

\* A request with a missing field that has been answered.
C8_Witness == FieldMissing /\ pc = "done" /\ response.status = 400 /\ sent = 1

\* The error value the handler puts in a failed response of each kind.
ErrorOfKind(kind) ==
    IF kind = "missing" THEN MissingDataResponse.body.error
    ELSE FailureResponse(Text("")).body.error

\* C9: the error value of a failed response tells the kind of failure: it is
\* not the error value of a failure of another kind.
C9_FailuresDistinguished ==
    (pc = "done" /\ cause # "none") =>
      \A kind \in {"missing", "grading", "upstream"} \ {cause} :
        response.body.error # ErrorOfKind(kind)

\* C10: a 200 response has a feedback string in every breakdown row, a
\* feedback object and an overallComment.
C10_FullyPopulated ==
    response.status = 200 =>
      /\ Len(response.body.breakdown) = Len(body.rubricStructured.criteria)
      /\ \A i \in 1..Len(response.body.breakdown) :
           Truthy(response.body.breakdown[i].feedback)
      /\ response.body.feedback # Absent
      /\ response.body.overallComment # Absent

====
